---- MODULE Spec2Model ----
(***************************************************************************)
(* PyKNyX group-communication stack: the network (layer 3) and transport   *)
(* (layer 4) group data services, between the link layer's send queue      *)
(* below and the application layer's listener above.                       *)
(*                                                                         *)
(* Every handler is a pure operator from the object's fields and the       *)
(* call's arguments to an outcome record: the exception raised (if any),   *)
(* the calls it made on its collaborators, in order, the log records it    *)
(* emitted, and the caller's buffer as the call leaves it (bytearrays are  *)
(* mutated in place).  The actions apply the handlers to the state.        *)
(*                                                                         *)
(* Around the layers: the Stack, whose start() and stop() run step by step *)
(* on the main thread beside the threads of the link layer and of the      *)
(* transceiver; a run of inbound frames, with what the layer-4 listener    *)
(* has seen of it; and the Datapoint, whose setters are pure operators to  *)
(* the calls they make on the translator, the change signal and the owner. *)
(*                                                                         *)
(* Specifications: SpecInd (inbound path), SpecReq (outbound path),        *)
(* SpecStack (life of a Stack), SpecOrder (a run of inbound frames),       *)
(* SpecDatapoint (assignments to a Datapoint), SpecXlator (calls on a      *)
(* DPTXlatorBoolean), SpecFlags (construction of Flags and calls on them), *)
(* SpecDpt (construction and use of DPTs), SpecWiring (a Stack's layers    *)
(* and their listeners), SpecRace (an indication beside setListener calls  *)
(* of another thread), SpecMainLoop (Stack.mainLoop and the operator's     *)
(* interrupt).                                                             *)
(***************************************************************************)
EXTENDS Integers, Sequences, FiniteSets, TLC

\* ---------------------------------------------------------------- bounds
\* Longest payload (in bytes) a caller or the bus supplies.
MaxLen == 2
\* Frames the link layer's send queue holds before the send pump drains it.
MaxQueue == 1

\* ------------------------------------------------------------- constants
UNNUMBERED_DATA == 0
NUMBERED_DATA == 64
\* tPDU[0] & 0xc0 and tSDU[0] &= 0x3f
TPCI_MASK == 192
TSDU_MASK == 63
\* a bytearray element is in range(0, 256)
ByteLimit == 256
DEFAULT_HOP_COUNT == 6

None == "None"
NoObject == [class |-> "NoObject"]
NoArgs == [none |-> TRUE]
NGDS == "ngds"
TGDS == "tgds"
AGDS == "agds"
MC_LDATA_IND == "MC_LDATA_IND"
LdsResult == "lds.dataReq"

\* ------------------------------------------------------------ input sets
\* First bytes with each value of the two packet-type bits: 0x3d (0x00),
\* 0x42 (0x40), 0x83 (0x80), 0xff (0xc0).
Bytes == {61, 66, 131, 255}
Priorities == {"system", "low"}
HopCounts == {0, 1, 6, 7}

GroupAddress(raw) == [kind |-> "group", raw |-> raw]
IndividualAddress(raw) == [kind |-> "individual", raw |-> raw]
GroupAddresses == {GroupAddress(0), GroupAddress(2305)}
\* 0.0.0, the source of a frame until the link layer sets it
UnsetAddress == IndividualAddress(0)
Sources == {IndividualAddress(4353), IndividualAddress(4609)}
Destinations == GroupAddresses \cup {IndividualAddress(0), IndividualAddress(4354)}

\* Buffers: empty, or a first byte followed by up to MaxLen - 1 further bytes,
\* each different from the others (0xc7, 0xc6, ...).
TailOf(k) == [i \in 1..k |-> 200 - i]
BuffersOf(firstBytes) ==
    {<<>>} \cup {<<b>> \o TailOf(k) : b \in firstBytes, k \in 0..(MaxLen - 1)}
Payloads == BuffersOf(Bytes)
\* What a caller asks to send: the first byte with the packet-type bits clear
\* (0x3d) or not (0x42).
ReqBytes == {61, 66}
ReqPayloads == BuffersOf(ReqBytes)
\* Network payloads as they arrive: empty, or a length byte and a payload.
LengthBytes == {1}
Npdus == {<<>>} \cup {<<l>> \o p : l \in LengthBytes, p \in Payloads}

\* -------------------------------------------------------------- bytes
RECURSIVE BitAnd(_, _)
BitAnd(a, b) ==
    IF a = 0 \/ b = 0 THEN 0
    ELSE (a % 2) * (b % 2) + 2 * BitAnd(a \div 2, b \div 2)

RECURSIVE BitOr(_, _)
BitOr(a, b) ==
    IF a = 0 THEN b
    ELSE IF b = 0 THEN a
    ELSE (IF a % 2 = 1 \/ b % 2 = 1 THEN 1 ELSE 0) + 2 * BitOr(a \div 2, b \div 2)

\* buf[1:]
Slice1(buf) == IF Len(buf) <= 1 THEN <<>> ELSE SubSeq(buf, 2, Len(buf))
\* buf[0] = b, in place
SetByte0(buf, b) == <<b>> \o Slice1(buf)

\* ------------------------------------------------------------ addresses
isNull(gad) == gad.raw = 0
IsGroupAddress(a) == a.kind = "group"

\* ------------------------------------------------------------------ log
LogRec(level, where, what) == [level |-> level, where |-> where, what |-> what]

\* ------------------------------------------------------------- outcomes
\* exc: the exception the call raises ("none": it returns); up: the calls made
\* on the upward listener, and top: the calls that listener made on its own;
\* down: the calls made on the service below, and sent: the frames that reached
\* the link layer; logs: the records emitted; buf: the caller's buffer
\* afterwards; ret: the value returned.
Outcome(exc, up, top, down, sent, logs, buf, ret) ==
    [exc |-> exc, up |-> up, top |-> top, down |-> down, sent |-> sent,
     logs |-> logs, buf |-> buf, ret |-> ret]

IndCall(src, gad, priority, data) ==
    [src |-> src, gad |-> gad, priority |-> priority, data |-> data]
ReqCall(gad, priority, data) == [gad |-> gad, priority |-> priority, data |-> data]

CEMILData(mc, src, dest, priority, hopCount, npdu) ==
    [messageCode |-> mc, sourceAddress |-> src, destinationAddress |-> dest,
     priority |-> priority, hopCount |-> hopCount, npdu |-> npdu]

\* ------------------------------------------------- layer 4: T_GroupDataService
\* T_GroupDataService.__init__(ngds): the new object, and ngds with the new
\* object set as its listener.
T_init(ngdsObj) ==
    [obj |-> [_tgdl |-> None], ngds |-> [ngdsObj EXCEPT !._ngdl = TGDS]]

\* Mutant of T_setListener: a listener, once set, stays.
T_setListener_keep(tgdsObj, tgdl) ==
    IF tgdsObj._tgdl = None THEN [tgdsObj EXCEPT !._tgdl = tgdl] ELSE tgdsObj

\* T_GroupDataService.setListener
T_setListener(tgdsObj, tgdl) == [tgdsObj EXCEPT !._tgdl = tgdl]

\* Mutant of T_tPCI: only bit 7 is read as the packet type (& 0x80).
T_tPCI_bit7(tPDU) == BitAnd(tPDU[1], 128)

\* tPCI = tPDU[0] & 0xc0
T_tPCI(tPDU) == BitAnd(tPDU[1], TPCI_MASK)

\* Mutant of T_tSDU: the sequence-number bits are cleared too (&= 0x03).
T_tSDU_mask03(tPDU) == SetByte0(tPDU, BitAnd(tPDU[1], 3))

\* tSDU = tPDU; tSDU[0] &= 0x3f
T_tSDU(tPDU) == SetByte0(tPDU, BitAnd(tPDU[1], TSDU_MASK))

\* Mutant of T_noListener: the listener is taken to be there.
T_noListener_never(tgdl) == FALSE

\* if self._tgdl is None
T_noListener(tgdl) == tgdl = None

\* Mutant of T_forward: the listener is called twice.
T_forward_twice(src, gad, priority, tSDU) ==
    <<IndCall(src, gad, priority, tSDU), IndCall(src, gad, priority, tSDU)>>

\* self._tgdl.groupDataInd(src, gad, priority, tSDU)
T_forward(src, gad, priority, tSDU) == <<IndCall(src, gad, priority, tSDU)>>

\* T_GroupDataService.groupDataInd; tgdl is self._tgdl.  up is the calls made on
\* the layer-4 listener; buf is the tPDU as the call leaves it.
T_groupDataInd(tgdl, src, gad, priority, tPDU) ==
    LET entry == LogRec("debug", "T_GroupDataService.groupDataInd", "entry") IN
    IF T_noListener(tgdl)
    THEN Outcome("none", <<>>, <<>>, <<>>, <<>>,
                 <<entry, LogRec("warning", "T_GroupDataService.groupDataInd",
                                 "not listener defined")>>, tPDU, None)
    ELSE IF Len(tPDU) = 0
    THEN Outcome("IndexError", <<>>, <<>>, <<>>, <<>>, <<entry>>, tPDU, None)
    ELSE LET tPCI == T_tPCI(tPDU) IN
         IF tPCI = UNNUMBERED_DATA
         THEN LET tSDU == T_tSDU(tPDU) IN
              Outcome("none", T_forward(src, gad, priority, tSDU), <<>>, <<>>, <<>>,
                      <<entry>>, tSDU, None)
         ELSE Outcome("none", <<>>, <<>>, <<>>, <<>>, <<entry>>, tPDU, None)

\* ------------------------------------------------- layer 3: N_GroupDataService
\* Mutant of N_validHopCount: 0 <= hopCount < 7.
N_validHopCount_from0(hopCount) == 0 <= hopCount /\ hopCount < 7

\* 0 < hopCount < 7
N_validHopCount(hopCount) == 0 < hopCount /\ hopCount < 7

\* N_GroupDataService.__init__(lds, hopCount); listener is the link layer's
\* listener before the call.
N_init(listener, hopCount) ==
    IF ~N_validHopCount(hopCount)
    THEN [exc |-> "N_GDSValueError", obj |-> NoObject, listener |-> listener]
    ELSE [exc |-> "none", obj |-> [_ngdl |-> None, _hopCount |-> hopCount],
          listener |-> NGDS]

\* N_GroupDataService.setListener
N_setListener(ngdsObj, ngdl) == [ngdsObj EXCEPT !._ngdl = ngdl]

\* Mutant of N_nSDU: the length byte is left on the payload.
N_nSDU_whole(cEMI) == cEMI.npdu

\* nSDU = cEMI.npdu[1:]
N_nSDU(cEMI) == Slice1(cEMI.npdu)

\* Mutant of N_notNull: the null group address is forwarded like any other.
N_notNull_always(dest) == TRUE

\* if not dest.isNull
N_notNull(dest) == ~isNull(dest)

\* if self._ngdl is None
N_noListener(ngdl) == ngdl = None

\* N_GroupDataService.dataInd; ngdl is self._ngdl, and tgdl the _tgdl of the
\* layer-4 service that is the listener.  up is the calls made on the layer-3
\* listener; top is the calls that listener made on its own listener.
N_dataInd(ngdl, tgdl, cEMI) ==
    LET entry == LogRec("debug", "N_GroupDataService.dataInd", "entry") IN
    IF N_noListener(ngdl)
    THEN Outcome("none", <<>>, <<>>, <<>>, <<>>,
                 <<entry, LogRec("warning", "N_GroupDataService.dataInd",
                                 "not listener defined")>>, cEMI.npdu, None)
    ELSE LET src == cEMI.sourceAddress
             dest == cEMI.destinationAddress
             priority == cEMI.priority
             nSDU == N_nSDU(cEMI)
         IN  IF IsGroupAddress(dest)
             THEN IF N_notNull(dest)
                  THEN LET t == T_groupDataInd(tgdl, src, dest, priority, nSDU) IN
                       Outcome(t.exc, <<IndCall(src, dest, priority, nSDU)>>, t.up,
                               <<>>, <<>>, <<entry>> \o t.logs, cEMI.npdu, None)
                  ELSE Outcome("none", <<>>, <<>>, <<>>, <<>>, <<entry>>, cEMI.npdu, None)
             ELSE Outcome("none", <<>>, <<>>, <<>>, <<>>,
                          <<entry, LogRec("warning", "N_GroupDataService.dataInd",
                                          "unsupported destination address type")>>,
                          cEMI.npdu, None)

\* Mutant of N_rejects: the null group address is not rejected.
N_rejects_never(gad) == FALSE

\* if gad.isNull: raise N_GDSValueError
N_rejects(gad) == isNull(gad)

\* Mutant of N_nPDU: the length byte is the length itself.
N_nPDU_len(nSDU) == <<Len(nSDU)>> \o nSDU

\* nPDU = bytearray(len(nSDU) + 1); nPDU[0] = len(nSDU) - 1; nPDU[1:] = nSDU
N_nPDU(nSDU) == <<Len(nSDU) - 1>> \o nSDU

\* N_GroupDataService.groupDataReq; hopCount is self._hopCount.  sent is the
\* frame handed to the link layer's dataReq, whose result it returns.
N_groupDataReq(hopCount, gad, priority, nSDU) ==
    LET entry == LogRec("debug", "N_GroupDataService.groupDataReq", "entry") IN
    IF N_rejects(gad)
    THEN Outcome("N_GDSValueError", <<>>, <<>>, <<>>, <<>>, <<entry>>, nSDU, None)
    ELSE IF Len(nSDU) - 1 < 0 \/ Len(nSDU) - 1 >= ByteLimit
    THEN Outcome("ValueError", <<>>, <<>>, <<>>, <<>>, <<entry>>, nSDU, None)
    ELSE LET nPDU == N_nPDU(nSDU)
             cEMI == CEMILData(MC_LDATA_IND, UnsetAddress, gad, priority, hopCount, nPDU)
         IN  Outcome("none", <<>>, <<>>, <<>>, <<cEMI>>, <<entry>>, nSDU, LdsResult)

\* Mutant of T_tPDU: the numbered-data code is ORed in.
T_tPDU_numbered(tSDU) == SetByte0(tSDU, BitOr(tSDU[1], NUMBERED_DATA))

\* tPDU = tSDU; tPDU[0] |= T_GroupDataService.UNNUMBERED_DATA
T_tPDU(tSDU) == SetByte0(tSDU, BitOr(tSDU[1], UNNUMBERED_DATA))

\* T_GroupDataService.groupDataReq; hopCount is that of self._ngds.  down is the
\* calls made on layer 3, sent what reached the link layer through them, buf the
\* caller's tSDU as the call leaves it.
T_groupDataReq(hopCount, gad, priority, tSDU) ==
    LET entry == LogRec("debug", "T_GroupDataService.groupDataReq", "entry") IN
    IF Len(tSDU) = 0
    THEN Outcome("IndexError", <<>>, <<>>, <<>>, <<>>, <<entry>>, tSDU, None)
    ELSE LET tPDU == T_tPDU(tSDU)
             n == N_groupDataReq(hopCount, gad, priority, tPDU)
         IN  Outcome(n.exc, <<>>, <<>>, <<ReqCall(gad, priority, tPDU)>>, n.sent,
                     <<entry>> \o n.logs, tPDU, n.ret)

\* ------------------------------------------------- layer 2: L_DataService
\* L_DataService.dataReq: the frame joins the send queue.
L_dataReq(queue, frames) == queue \o frames

\* ------------------------------------------------- layer 7: the Groups
\* The Groups of A_GroupDataService.groups, in the order of its values().
GroupOrder == <<"g1", "g2">>
GroupIds == {GroupOrder[i] : i \in DOMAIN GroupOrder}

\* ---------------------------------------------------------------- state
VARIABLES
    ldsListener,    \* the link layer's listener: None or NGDS
    l2Queue,        \* the link layer's send queue
    ngds,           \* the layer-3 service: NoObject or [_ngdl, _hopCount]
    tgds,           \* the layer-4 service: NoObject or [_tgdl]
    last,           \* the last call: [op, args, out]
    hist,           \* how the call before it ended
    groups,         \* the application layer's Groups: the listeners of each
    main,           \* the thread that calls Stack.start() and Stack.stop()
    ldsThread,      \* the link layer's thread, which drains the send queue
    tcThread,       \* the transceiver's thread, which receives from the bus
    rxDelivered,    \* frames the transceiver's thread has handed to the link layer
    arrived,        \* the frames the link layer has handed to layer 3, in order
    seen,           \* the calls the layer-4 listener has got, in order
    dpData,         \* a Datapoint's _data: <<>> (None) or <<data>>
    dpLast,         \* the last assignment to the Datapoint: [op, arg, before, out]
    signalled,      \* what the Datapoint's change signal has emitted, in order
    notified,       \* what the Datapoint's owner has been notified of, in order
    xDpt,           \* a translator's _dpt: the DPT it is bound to
    xLog,           \* the calls made on the translator, in order
    flObj,          \* a name bound to a Flags: <<>> (unbound) or <<flags>>
    flLog,          \* the calls on Flags, in order: [op, arg, exc, made, ret, truth]
    dpts,           \* the DPT objects constructed, in order
    dptLast,        \* the last call of DPT() and the last use of the DPT it made
    wireLog,        \* listeners set on the layers and indications they got, in order
    rxInd           \* an indication on the receive pump's thread, statement by statement

layerVars == <<ldsListener, ngds, tgds, last, hist>>
stackVars == <<groups, main, ldsThread, tcThread, rxDelivered>>
orderVars == <<arrived, seen>>
dpVars == <<dpData, dpLast, signalled, notified>>
xlatorVars == <<xDpt, xLog>>
\* The value types and codecs, which the stack and the Datapoint only use.
flagsVars == <<flObj, flLog>>
dptVars == <<dpts, dptLast>>
typeVars == <<xlatorVars, flagsVars, dptVars>>
wireVars == <<wireLog, rxInd>>
\* What the actions of a part of the program leave alone.
outsideLayers == <<stackVars, orderVars, dpVars, typeVars, wireVars>>
outsideStack == <<orderVars, dpVars, typeVars, wireVars>>
outsideOrder == <<stackVars, dpVars, typeVars, wireVars>>
outsideDatapoint == <<l2Queue, layerVars, stackVars, orderVars, typeVars, wireVars>>
outsideTypes == <<l2Queue, layerVars, stackVars, orderVars, dpVars, wireVars>>
outsideWiring == <<stackVars, orderVars, dpVars, typeVars, rxInd>>
outsideRace == <<ldsListener, l2Queue, last, hist, stackVars, orderVars, dpVars,
                 typeVars, wireLog>>
outsideXlator == <<outsideTypes, flagsVars, dptVars>>
outsideFlags == <<outsideTypes, xlatorVars, dptVars>>
outsideDpt == <<outsideTypes, xlatorVars, flagsVars>>
vars == <<ldsListener, l2Queue, ngds, tgds, last, hist,
          groups, main, ldsThread, tcThread, rxDelivered, arrived, seen,
          dpData, dpLast, signalled, notified, xDpt, xLog,
          flObj, flLog, dpts, dptLast, wireLog, rxInd>>

NoOutcome == Outcome("none", <<>>, <<>>, <<>>, <<>>, <<>>, <<>>, None)
Call(op, args, out) == [op |-> op, args |-> args, out |-> out]

\* What the next call remembers of a call: why it went no further than the layer
\* it was given to, if it was an indication that was dropped; that layer 4 sent
\* a frame, if it did; "no" otherwise.
Ending(call) ==
    IF call.op = "T_groupDataReq" /\ call.out.sent # <<>>
    THEN "sent by layer 4"
    ELSE IF call.op \notin {"dataInd", "groupDataInd", "loopback"}
            \/ call.out.exc # "none" \/ call.out.up # <<>>
    THEN "no"
    ELSE IF call.op = "groupDataInd"
    THEN (IF Len(call.out.logs) > 1 THEN "no listener" ELSE "packet type")
    ELSE IF Len(call.out.logs) > 1
    THEN (IF call.args.destinationAddress.kind = "group" THEN "no listener"
          ELSE "destination type")
    ELSE "null destination"

\* No Group has a listener; nothing has called Stack.start() or Stack.stop().
MainIdle == [call |-> "none", todo |-> <<>>, trace |-> <<>>, returns |-> <<>>]

StackInit(listeners) ==
    /\ groups = listeners
    /\ main = MainIdle
    /\ ldsThread = "initial"
    /\ tcThread = "initial"
    /\ rxDelivered = 0

LayersInit ==
    /\ ldsListener = None
    /\ l2Queue = <<>>
    /\ ngds = NoObject
    /\ tgds = NoObject
    /\ last = Call("none", NoArgs, NoOutcome)
    /\ hist = "no"

OrderInit ==
    /\ arrived = <<>>
    /\ seen = <<>>

\* A Datapoint constructed without a default: self._data = None.
DatapointInit ==
    /\ dpData = <<>>
    /\ dpLast = [op |-> "none", arg |-> <<>>, before |-> <<>>, ret |-> <<>>,
                 ctor |-> <<>>,
                 out |-> [exc |-> "none", data |-> <<>>, events |-> <<>>]]
    /\ signalled = <<>>
    /\ notified = <<>>

\* DPTXlatorBoolean's DPTs, by id: the generic DPT of main number 1 and a
\* sub-DPT of it.
X_handledDPT == [id \in {"1.xxx", "1.001"} |->
                    IF id = "1.xxx" THEN "DPT_Generic" ELSE "DPT_Switch"]

\* Mutant of X_setDpt: the assignment is ignored.
X_setDpt_ignored(dpt, dptId) == dpt

\* translator.dpt = dptId: the DPT the translator is bound to afterwards.
X_setDpt(dpt, dptId) == X_handledDPT[dptId]

\* The translator as DPTXlatorBoolean("1.xxx") leaves it; no call made yet.
XlatorInit ==
    /\ xDpt = X_handledDPT["1.xxx"]
    /\ xLog = <<>>

\* No Flags constructed yet.
FlagsInit ==
    /\ flObj = <<>>
    /\ flLog = <<>>

\* No DPT constructed yet.
DptInit ==
    /\ dpts = <<>>
    /\ dptLast = [op |-> "none", attr |-> "",
                  limits |-> [type |-> "NoneType", elems |-> "numbers", items |-> <<>>],
                  given |-> [id |-> "", desc |-> "", unit |-> <<>>,
                             limits |-> [type |-> "NoneType", elems |-> "numbers",
                                         items |-> <<>>]],
                  exc |-> "none", made |-> <<>>,
                  ret |-> [id |-> "", desc |-> "", unit |-> <<>>,
                           limits |-> [type |-> "NoneType", elems |-> "numbers",
                                       items |-> <<>>]]]

\* The receive pump is in no indication.
RxIdle == [pc |-> "idle", layer |-> 0, exc |-> "none", to |-> None, log |-> "",
           during |-> {}, sets |-> 0]

TypesInit == XlatorInit /\ FlagsInit /\ DptInit /\ wireLog = <<>> /\ rxInd = RxIdle

Init ==
    /\ LayersInit
    /\ StackInit([g \in GroupIds |-> <<>>])
    /\ OrderInit
    /\ DatapointInit
    /\ TypesInit

\* The listener of the layer-4 service, seen from layer 3.
Tgdl == IF tgds = NoObject THEN None ELSE tgds._tgdl

\* N_GroupDataService(lds, hopCount)
NInit(hopCount) ==
    /\ ngds = NoObject
    /\ LET r == N_init(ldsListener, hopCount) IN
        /\ ngds' = r.obj
        /\ ldsListener' = r.listener
        /\ last' = Call("N_init", [hopCount |-> hopCount],
                        [NoOutcome EXCEPT !.exc = r.exc])
    /\ hist' = Ending(last)
    /\ UNCHANGED <<l2Queue, tgds>>
    /\ UNCHANGED outsideLayers

\* T_GroupDataService(ngds)
TInit ==
    /\ ngds # NoObject
    /\ tgds = NoObject
    /\ LET r == T_init(ngds) IN
        /\ tgds' = r.obj
        /\ ngds' = r.ngds
    /\ last' = Call("T_init", NoArgs, NoOutcome)
    /\ hist' = Ending(last)
    /\ UNCHANGED <<ldsListener, l2Queue>>
    /\ UNCHANGED outsideLayers

\* ngds.setListener(ngdl)
NSetListener(ngdl) ==
    /\ ngds # NoObject
    /\ ngdl = TGDS => tgds # NoObject
    /\ ngds' = N_setListener(ngds, ngdl)
    /\ last' = Call("N_setListener", [ngdl |-> ngdl], NoOutcome)
    /\ hist' = Ending(last)
    /\ UNCHANGED <<ldsListener, l2Queue, tgds>>
    /\ UNCHANGED outsideLayers

\* tgds.setListener(tgdl)
TSetListener(tgdl) ==
    /\ tgds # NoObject
    /\ tgds' = T_setListener(tgds, tgdl)
    /\ last' = Call("T_setListener", [tgdl |-> tgdl], NoOutcome)
    /\ hist' = Ending(last)
    /\ UNCHANGED <<ldsListener, l2Queue, ngds>>
    /\ UNCHANGED outsideLayers

\* The receive pump hands a frame from the bus to the link layer's listener.
DataInd(cEMI) ==
    /\ ldsListener = NGDS
    /\ last' = Call("dataInd", cEMI, N_dataInd(ngds._ngdl, Tgdl, cEMI))
    /\ hist' = Ending(last)
    /\ UNCHANGED <<ldsListener, l2Queue, ngds, tgds>>
    /\ UNCHANGED outsideLayers

\* tgds.groupDataInd(src, gad, priority, tPDU)
GroupDataInd(src, gad, priority, tPDU) ==
    /\ tgds # NoObject
    /\ last' = Call("groupDataInd", IndCall(src, gad, priority, tPDU),
                    T_groupDataInd(tgds._tgdl, src, gad, priority, tPDU))
    /\ hist' = Ending(last)
    /\ UNCHANGED <<ldsListener, l2Queue, ngds, tgds>>
    /\ UNCHANGED outsideLayers

\* ngds.groupDataReq(gad, priority, nSDU)
NGroupDataReq(gad, priority, nSDU) ==
    /\ ngds # NoObject
    /\ LET r == N_groupDataReq(ngds._hopCount, gad, priority, nSDU) IN
        /\ Len(L_dataReq(l2Queue, r.sent)) <= MaxQueue
        /\ l2Queue' = L_dataReq(l2Queue, r.sent)
        /\ last' = Call("N_groupDataReq", ReqCall(gad, priority, nSDU), r)
    /\ hist' = Ending(last)
    /\ UNCHANGED <<ldsListener, ngds, tgds>>
    /\ UNCHANGED outsideLayers

\* tgds.groupDataReq(gad, priority, tSDU)
TGroupDataReq(gad, priority, tSDU) ==
    /\ tgds # NoObject
    /\ LET r == T_groupDataReq(ngds._hopCount, gad, priority, tSDU) IN
        /\ Len(L_dataReq(l2Queue, r.sent)) <= MaxQueue
        /\ l2Queue' = L_dataReq(l2Queue, r.sent)
        /\ last' = Call("T_groupDataReq", ReqCall(gad, priority, tSDU), r)
    /\ hist' = Ending(last)
    /\ UNCHANGED <<ldsListener, ngds, tgds>>
    /\ UNCHANGED outsideLayers

\* A loopback transceiver: the frame at the head of the send queue leaves it
\* and comes back, unchanged, through the receive pump.
Loopback ==
    /\ l2Queue # <<>>
    /\ ldsListener = NGDS
    /\ l2Queue' = Tail(l2Queue)
    /\ last' = Call("loopback", Head(l2Queue),
                    N_dataInd(ngds._ngdl, Tgdl, Head(l2Queue)))
    /\ hist' = Ending(last)
    /\ UNCHANGED <<ldsListener, ngds, tgds>>
    /\ UNCHANGED outsideLayers

\* The send pump puts the frame at the head of the send queue on the bus.
Drain ==
    /\ l2Queue # <<>>
    /\ l2Queue' = Tail(l2Queue)
    /\ last' = Call("drain", Head(l2Queue), NoOutcome)
    /\ hist' = Ending(last)
    /\ UNCHANGED <<ldsListener, ngds, tgds>>
    /\ UNCHANGED outsideLayers

Wiring ==
    \/ \E h \in HopCounts : NInit(h)
    \/ TInit
    \/ \E l \in {None, TGDS} : NSetListener(l)
    \/ \E l \in {None, AGDS} : TSetListener(l)

Frames ==
    {CEMILData(MC_LDATA_IND, s, d, p, DEFAULT_HOP_COUNT, n) :
        s \in Sources, d \in Destinations, p \in Priorities, n \in Npdus}

\* The inbound path: frames from the bus, and indications given to layer 4.
NextInd ==
    \/ Wiring
    \/ \E f \in Frames : DataInd(f)
    \/ \E s \in Sources, g \in GroupAddresses, p \in Priorities, t \in Payloads :
            GroupDataInd(s, g, p, t)

SpecInd == Init /\ [][NextInd]_vars

\* The outbound path, with a loopback transceiver.
NextReq ==
    \/ Wiring
    \/ \E g \in GroupAddresses, p \in Priorities, n \in ReqPayloads :
            NGroupDataReq(g, p, n)
    \/ \E g \in GroupAddresses, p \in Priorities, t \in ReqPayloads :
            TGroupDataReq(g, p, t)
    \/ Loopback
    \/ Drain

SpecReq == Init /\ [][NextReq]_vars

\* ------------------------------------------------------------ the Stack
\* Listeners a Group has at the most.
MaxListeners == 2
\* Calls of Stack.start() and Stack.stop() the main thread makes.
MaxCalls == 4
\* Frames the transceiver's thread takes from the bus.
MaxRx == 1

\* A listener of a Group, by what line 129 finds in it: flags with init set,
\* flags with init clear, flags that is None, no attribute flags at all.
ListenerKinds == {"init", "noinit", "flagsNone", "noFlags"}

RECURSIVE SeqsUpTo(_, _)
SeqsUpTo(S, n) ==
    IF n = 0 THEN {<<>>}
    ELSE LET shorter == SeqsUpTo(S, n - 1) IN
         shorter \cup {Append(q, x) : q \in shorter, x \in S}

GroupConfigs == [GroupIds -> SeqsUpTo(ListenerKinds, MaxListeners)]

\* A step of the main thread: what it does, and on which Group ("-": none).
Step(op, g) == [op |-> op, g |-> g]

\* listener.flags.init raises AttributeError
RaisesAttributeError(listener) == listener \in {"flagsNone", "noFlags"}

\* Mutant of ScanListeners: no break after the read request.
RECURSIVE ScanListeners_nobreak(_, _)
ScanListeners_nobreak(g, listeners) ==
    IF listeners = <<>> THEN <<>>
    ELSE IF RaisesAttributeError(Head(listeners))
    THEN <<Step("log.exception", g)>> \o ScanListeners_nobreak(g, Tail(listeners))
    ELSE IF Head(listeners) = "init"
    THEN <<Step("read", g), Step("pace", g)>> \o ScanListeners_nobreak(g, Tail(listeners))
    ELSE ScanListeners_nobreak(g, Tail(listeners))

\* Mutant of ScanListeners: the AttributeError ends the loop over the Group's
\* listeners.
RECURSIVE ScanListeners_untilError(_, _)
ScanListeners_untilError(g, listeners) ==
    IF listeners = <<>> THEN <<>>
    ELSE IF RaisesAttributeError(Head(listeners))
    THEN <<Step("log.exception", g)>>
    ELSE IF Head(listeners) = "init"
    THEN <<Step("read", g), Step("pace", g)>>
    ELSE ScanListeners_untilError(g, Tail(listeners))

\* for listener in group.listeners: the steps of the inner loop of Stack.start.
RECURSIVE ScanListeners(_, _)
ScanListeners(g, listeners) ==
    IF listeners = <<>> THEN <<>>
    ELSE IF RaisesAttributeError(Head(listeners))
    THEN <<Step("log.exception", g)>> \o ScanListeners(g, Tail(listeners))
    ELSE IF Head(listeners) = "init"
    THEN <<Step("read", g), Step("pace", g)>>
    ELSE ScanListeners(g, Tail(listeners))

\* for group in self._agds.groups.values(): the steps from Group number i on.
RECURSIVE ScanGroups(_, _)
ScanGroups(listeners, i) ==
    IF i > Len(GroupOrder) THEN <<>>
    ELSE ScanListeners(GroupOrder[i], listeners[GroupOrder[i]])
            \o ScanGroups(listeners, i + 1)

\* Mutant of StartThreads: the transceiver is started first.
StartThreads_tcFirst == <<Step("tc.start", "-"), Step("lds.start", "-"), Step("settle", "-")>>

\* self._lds.start(); self._tc.start(); time.sleep(0.25)
StartThreads == <<Step("lds.start", "-"), Step("tc.start", "-"), Step("settle", "-")>>

\* Stack.start, as the steps it takes
StartSteps(listeners) == StartThreads \o ScanGroups(listeners, 1)

\* Mutant of StopSteps: the threads are signalled and not joined.
StopSteps_noJoin == <<Step("tc.stop", "-"), Step("lds.stop", "-")>>

\* Mutant of StopSteps: the link layer's thread is not joined.
StopSteps_noLdsJoin ==
    <<Step("tc.stop", "-"), Step("lds.stop", "-"), Step("tc.join", "-")>>

\* Stack.stop, as the steps it takes
StopSteps ==
    <<Step("tc.stop", "-"), Step("lds.stop", "-"), Step("tc.join", "-"),
      Step("lds.join", "-")>>

\* A thread is "initial" until started, then "running"; signalled, it is
\* "stopping" until its loop sees the signal and ends: "terminated".
Alive(thread) == thread \in {"running", "stopping"}
Thread_start(thread) == IF thread = "initial" THEN "running" ELSE thread
Thread_stop(thread) == IF thread = "running" THEN "stopping" ELSE thread
\* join returns when the thread is not alive, and a thread never started is
\* not; join raises nothing.
Thread_join(thread) == IF Alive(thread) THEN "blocks" ELSE "returns"

\* Group.read: a read request for the Group joins the send queue.
Group_read(queue, g) == L_dataReq(queue, <<[read |-> g]>>)

\* The main thread calls Stack.start().
CallStart ==
    /\ main.call = "none"
    /\ Len(main.returns) < MaxCalls
    /\ ldsThread = "initial" /\ tcThread = "initial"
    /\ main' = [main EXCEPT !.call = "start", !.todo = StartSteps(groups),
                            !.trace = <<>>]
    /\ UNCHANGED <<groups, ldsThread, tcThread, rxDelivered, l2Queue, layerVars>>
    /\ UNCHANGED outsideStack

\* The main thread calls Stack.stop().
CallStop ==
    /\ main.call = "none"
    /\ Len(main.returns) < MaxCalls
    /\ main' = [main EXCEPT !.call = "stop", !.todo = StopSteps, !.trace = <<>>]
    /\ UNCHANGED <<groups, ldsThread, tcThread, rxDelivered, l2Queue, layerVars>>
    /\ UNCHANGED outsideStack

\* What a step of the main thread comes to: "returns", "blocks" (the step is
\* not taken yet) or "raises".
StepResult(step) ==
    CASE step.op = "tc.join" -> Thread_join(tcThread)
      [] step.op = "lds.join" -> Thread_join(ldsThread)
      [] step.op = "idle" -> "blocks"
      [] OTHER -> "returns"

\* The main thread takes the next step of the call it is in; the call returns
\* with its last step, and ends where a step raises.
MainStep ==
    /\ main.call # "none"
    /\ LET step == Head(main.todo)
           rest == Tail(main.todo)
       IN  /\ StepResult(step) # "blocks"
           /\ ldsThread' = CASE step.op = "lds.start" -> Thread_start(ldsThread)
                              [] step.op = "lds.stop" -> Thread_stop(ldsThread)
                              [] OTHER -> ldsThread
           /\ tcThread' = CASE step.op = "tc.start" -> Thread_start(tcThread)
                             [] step.op = "tc.stop" -> Thread_stop(tcThread)
                             [] OTHER -> tcThread
           /\ l2Queue' = IF step.op = "read" THEN Group_read(l2Queue, step.g)
                         ELSE l2Queue
           /\ main' = IF StepResult(step) = "raises"
                      THEN [call |-> "none", todo |-> <<>>,
                            trace |-> Append(main.trace, step),
                            returns |-> Append(main.returns,
                                IF main.call = "stop" THEN "stop raised"
                                ELSE "start raised")]
                      ELSE IF rest = <<>>
                      THEN [call |-> "none", todo |-> <<>>,
                            trace |-> Append(main.trace, step),
                            returns |-> Append(main.returns, main.call)]
                      ELSE [main EXCEPT !.todo = rest,
                                        !.trace = Append(main.trace, step)]
    /\ UNCHANGED <<groups, rxDelivered, layerVars>>
    /\ UNCHANGED outsideStack

\* The transceiver's thread hands a frame from the bus to the link layer.
ReceivePump ==
    /\ Alive(tcThread)
    /\ rxDelivered < MaxRx
    /\ rxDelivered' = rxDelivered + 1
    /\ UNCHANGED <<groups, main, ldsThread, tcThread, l2Queue, layerVars>>
    /\ UNCHANGED outsideStack

\* The link layer's thread puts the frame at the head of the send queue on the
\* bus.
SendPump ==
    /\ Alive(ldsThread)
    /\ l2Queue # <<>>
    /\ l2Queue' = Tail(l2Queue)
    /\ UNCHANGED <<groups, main, ldsThread, tcThread, rxDelivered, layerVars>>
    /\ UNCHANGED outsideStack

\* A signalled thread sees the signal and ends.
TcExit ==
    /\ tcThread = "stopping"
    /\ tcThread' = "terminated"
    /\ UNCHANGED <<groups, main, ldsThread, rxDelivered, l2Queue, layerVars>>
    /\ UNCHANGED outsideStack

LdsExit ==
    /\ ldsThread = "stopping"
    /\ ldsThread' = "terminated"
    /\ UNCHANGED <<groups, main, tcThread, rxDelivered, l2Queue, layerVars>>
    /\ UNCHANGED outsideStack

InitStack ==
    /\ LayersInit
    /\ \E listeners \in GroupConfigs : StackInit(listeners)
    /\ OrderInit
    /\ DatapointInit
    /\ TypesInit

NextStack ==
    \/ CallStart
    \/ CallStop
    \/ MainStep
    \/ ReceivePump
    \/ SendPump
    \/ TcExit
    \/ LdsExit

\* The life of a Stack: start and stop on the main thread, the two pumps.
SpecStack == InitStack /\ [][NextStack]_vars

\* Stack.mainLoop up to its wait: self.start(), then "while True:
\* time.sleep(9999)" inside the try, which only an exception ends.
MainLoopSteps(listeners) == StartSteps(listeners) \o <<Step("idle", "-")>>

\* KeyboardInterrupt in mainLoop with the steps todo ahead: inside the try
\* (the wait) the except clause calls self.stop(); in self.start(), which is
\* before the try, the exception leaves mainLoop.
ML_interrupt(todo) ==
    IF Head(todo).op = "idle" THEN [raises |-> FALSE, todo |-> StopSteps]
    ELSE [raises |-> TRUE, todo |-> <<>>]

\* The main thread calls Stack.mainLoop().
CallMainLoop ==
    /\ main.call = "none"
    /\ Len(main.returns) < MaxCalls
    /\ ldsThread = "initial" /\ tcThread = "initial"
    /\ main' = [main EXCEPT !.call = "mainLoop", !.todo = MainLoopSteps(groups),
                            !.trace = <<>>]
    /\ UNCHANGED <<groups, ldsThread, tcThread, rxDelivered, l2Queue, layerVars>>
    /\ UNCHANGED outsideStack

\* The operator interrupts the process while the main thread is in start()
\* or in the wait of mainLoop.
Interrupt ==
    /\ main.call = "mainLoop"
    /\ \E i \in DOMAIN main.todo : main.todo[i].op = "idle"
    /\ LET out == ML_interrupt(main.todo)
           trace == Append(main.trace, Step("KeyboardInterrupt", "-"))
       IN  main' = IF out.raises
                   THEN [call |-> "none", todo |-> <<>>, trace |-> trace,
                         returns |-> Append(main.returns, "mainLoop raised")]
                   ELSE [main EXCEPT !.todo = out.todo, !.trace = trace]
    /\ UNCHANGED <<groups, ldsThread, tcThread, rxDelivered, l2Queue, layerVars>>
    /\ UNCHANGED outsideStack

NextMainLoop ==
    \/ CallMainLoop
    \/ MainStep
    \/ Interrupt
    \/ TcExit
    \/ LdsExit

\* A Stack run through mainLoop, with the operator's interrupt.
SpecMainLoop == InitStack /\ [][NextMainLoop]_vars

\* ------------------------------------------------- a run of inbound frames
\* Frames the link layer hands to layer 3 in one run.
MaxFrames == 3

\* Network payloads: none, unnumbered data of one and of two bytes, numbered
\* data.
OrderNpdus == {<<>>, <<1, 61>>, <<1, 61, 199>>, <<1, 66>>}

OrderFrames ==
    {CEMILData(MC_LDATA_IND, s, d, "low", DEFAULT_HOP_COUNT, n) :
        s \in Sources,
        d \in {GroupAddress(2305), GroupAddress(0), IndividualAddress(4354)},
        n \in OrderNpdus}

\* The layers as Stack.__init__ leaves them: each the listener of the one below.
InitOrder ==
    /\ ldsListener = NGDS
    /\ l2Queue = <<>>
    /\ ngds = [_ngdl |-> TGDS, _hopCount |-> DEFAULT_HOP_COUNT]
    /\ tgds = [_tgdl |-> AGDS]
    /\ last = Call("none", NoArgs, NoOutcome)
    /\ hist = "no"
    /\ StackInit([g \in GroupIds |-> <<>>])
    /\ OrderInit
    /\ DatapointInit
    /\ TypesInit

\* The receive pump hands the next frame from the bus to the link layer's
\* listener; what the layer-4 listener is called with, it has seen when the
\* call returns.
Receive(cEMI) ==
    /\ ldsListener = NGDS
    /\ Len(arrived) < MaxFrames
    /\ LET out == N_dataInd(ngds._ngdl, Tgdl, cEMI) IN
        /\ last' = Call("dataInd", cEMI, out)
        /\ seen' = seen \o out.top
    /\ arrived' = Append(arrived, cEMI)
    /\ hist' = Ending(last)
    /\ UNCHANGED <<ldsListener, l2Queue, ngds, tgds>>
    /\ UNCHANGED outsideOrder

NextOrder == \E f \in OrderFrames : Receive(f)

SpecOrder == InitOrder /\ [][NextOrder]_vars

\* ---------------------------------------------------------------- wiring
\* Entries of the log after Stack.__init__ has made its three.
MaxWire == 6

\* A_GroupDataService(tgds): registers itself as the listener of layer 4.
A_init(tgdsObj) == T_setListener(tgdsObj, AGDS)

\* Stack.__init__: the link layer, then each layer on the one below it.
Stack_init ==
    LET n == N_init(None, DEFAULT_HOP_COUNT)
        t == T_init(n.obj)
    IN  [ldsListener |-> n.listener, ngds |-> t.ngds, tgds |-> A_init(t.obj)]

WireSet(layer, who) == [ev |-> "set", layer |-> layer, who |-> who, data |-> <<>>]
WireGot(layer, who, data) == [ev |-> "got", layer |-> layer, who |-> who, data |-> data]

\* stack = Stack()
StackNew ==
    /\ ngds = NoObject
    /\ tgds = NoObject
    /\ ldsListener' = Stack_init.ldsListener
    /\ ngds' = Stack_init.ngds
    /\ tgds' = Stack_init.tgds
    /\ last' = Call("Stack_init", NoArgs, NoOutcome)
    /\ hist' = Ending(last)
    /\ wireLog' = wireLog \o <<WireSet(2, Stack_init.ldsListener),
                                WireSet(3, Stack_init.ngds._ngdl),
                                WireSet(4, Stack_init.tgds._tgdl)>>
    /\ UNCHANGED l2Queue
    /\ UNCHANGED outsideWiring

\* ngds.setListener(who) or tgds.setListener(who) on the layers of a Stack.
WireSetListener(layer, who) ==
    /\ ngds # NoObject
    /\ tgds # NoObject
    /\ Len(wireLog) < MaxWire
    /\ ngds' = IF layer = 3 THEN N_setListener(ngds, who) ELSE ngds
    /\ tgds' = IF layer = 4 THEN T_setListener(tgds, who) ELSE tgds
    /\ last' = Call("setListener", [layer |-> layer, who |-> who], NoOutcome)
    /\ hist' = Ending(last)
    /\ wireLog' = Append(wireLog, WireSet(layer, who))
    /\ UNCHANGED <<ldsListener, l2Queue>>
    /\ UNCHANGED outsideWiring

\* The receive pump hands a frame to the link layer's listener; each layer's
\* listener is logged with what it is called with.
WireInd(cEMI) ==
    /\ ldsListener = NGDS
    /\ LET out == N_dataInd(ngds._ngdl, Tgdl, cEMI)
           got == <<WireGot(2, ldsListener, cEMI.npdu)>>
                  \o [i \in DOMAIN out.up |-> WireGot(3, ngds._ngdl, out.up[i].data)]
                  \o [i \in DOMAIN out.top |-> WireGot(4, tgds._tgdl, out.top[i].data)]
       IN  /\ Len(wireLog \o got) <= MaxWire + 2
           /\ Len(wireLog) < MaxWire
           /\ last' = Call("dataInd", cEMI, out)
           /\ wireLog' = wireLog \o got
    /\ hist' = Ending(last)
    /\ UNCHANGED <<ldsListener, l2Queue, ngds, tgds>>
    /\ UNCHANGED outsideWiring

WireFrames ==
    {f \in OrderFrames : /\ f.npdu \in {<<1, 61>>, <<1, 66>>}
                         /\ f.destinationAddress = GroupAddress(2305)}

NextWiring ==
    \/ StackNew
    \/ \E who \in {None, TGDS} : WireSetListener(3, who)
    \/ \E who \in {None, AGDS, "listener"} : WireSetListener(4, who)
    \/ \E f \in WireFrames : WireInd(f)

SpecWiring == Init /\ [][NextWiring]_vars

\* ------------------------------------------- indication against setListener
\* setListener calls another thread makes while one indication runs.
MaxSets == 2

\* self._ngdl of layer 3 or self._tgdl of layer 4, as it is now.
ListenerOf(layer) == IF layer = 3 THEN ngds._ngdl ELSE tgds._tgdl

\* dataInd (layer 3) or groupDataInd (layer 4) is entered with a frame it
\* would pass on, and tests its listener: "if self._ngdl is None" (line 96),
\* "if self._tgdl is None" (line 131).
RaceTest(layer) ==
    /\ rxInd.pc = "idle"
    /\ rxInd' = IF (IF layer = 3 THEN N_noListener(ListenerOf(layer))
                    ELSE T_noListener(ListenerOf(layer)))
                THEN [RxIdle EXCEPT !.pc = "done", !.layer = layer,
                                    !.log = "not listener defined",
                                    !.during = {ListenerOf(layer)}]
                ELSE [RxIdle EXCEPT !.pc = "tested", !.layer = layer,
                                    !.during = {ListenerOf(layer)}]
    /\ UNCHANGED <<ngds, tgds>>
    /\ UNCHANGED outsideRace

\* The indication reaches the call on its listener: self._ngdl.groupDataInd(...)
\* (line 110), self._tgdl.groupDataInd(...) (line 140).  The field is read
\* again; None has no groupDataInd.
RaceCall ==
    /\ rxInd.pc = "tested"
    /\ rxInd' = IF ListenerOf(rxInd.layer) = None
                THEN [rxInd EXCEPT !.pc = "done", !.exc = "AttributeError"]
                ELSE [rxInd EXCEPT !.pc = "done", !.to = ListenerOf(rxInd.layer)]
    /\ UNCHANGED <<ngds, tgds>>
    /\ UNCHANGED outsideRace

\* The indication has returned; the receive pump takes the next frame.
RaceReturn ==
    /\ rxInd.pc = "done"
    /\ rxInd' = RxIdle
    /\ UNCHANGED <<ngds, tgds>>
    /\ UNCHANGED outsideRace

\* Another thread calls setListener(who) on layer 3 or on layer 4.
RaceSetListener(layer, who) ==
    /\ rxInd.sets < MaxSets
    /\ ngds' = IF layer = 3 THEN N_setListener(ngds, who) ELSE ngds
    /\ tgds' = IF layer = 4 THEN T_setListener(tgds, who) ELSE tgds
    /\ rxInd' = [rxInd EXCEPT !.sets = @ + 1,
                              !.during = IF rxInd.pc = "tested" /\ rxInd.layer = layer
                                         THEN @ \cup {who} ELSE @]
    /\ UNCHANGED outsideRace

NextRace ==
    \/ \E layer \in {3, 4} : RaceTest(layer)
    \/ RaceCall
    \/ RaceReturn
    \/ \E who \in {None, TGDS, "listener"} : RaceSetListener(3, who)
    \/ \E who \in {None, AGDS, "listener"} : RaceSetListener(4, who)

SpecRace == InitOrder /\ [][NextRace]_vars

\* ------------------------------------------------------- the Datapoint
\* Notifications the owner of the Datapoint takes.
MaxNotified == 2

\* The Boolean translator, bound to the generic DPT 1.xxx: its limits, and the
\* conversions between value, data and frame.
X_limits == <<0, 1>>

\* Mutant of X_checkValue: the upper limit itself is outside.
X_checkValue_strictUpper(value) == X_limits[1] <= value /\ value < X_limits[2]

\* Mutant of X_dataToValue: the limits are read from the other end.
X_dataToValue_swapped(data) == X_limits[Len(X_limits) - data]

X_checkValue(value) == \E i \in DOMAIN X_limits : X_limits[i] = value
X_checkData(data) == data \in {0, 1}
X_valueToData(value) ==
    IF X_checkValue(value)
    THEN [exc |-> "none",
          data |-> (CHOOSE i \in DOMAIN X_limits : X_limits[i] = value) - 1]
    ELSE [exc |-> "ValueError", data |-> 0]
X_dataToValue(data) == X_limits[data + 1]
X_frameToData(frame) ==
    IF Len(frame) = 1 THEN [exc |-> "none", data |-> frame[1]]
    ELSE [exc |-> "struct.error", data |-> 0]

\* Values and frames given to the Datapoint: the limits and the values next to
\* them; frames of no, one and two bytes.
DpValues == {-1, 0, 1, 2}
DpFrames == {<<>>, <<0>>, <<1>>, <<2>>, <<0, 1>>}

\* A call the Datapoint makes on one of its collaborators ("self": the
\* assignment to self._data).
Ev(on, op, args) == [on |-> on, op |-> op, args |-> args]
DpOutcome(exc, data, events) == [exc |-> exc, data |-> data, events |-> events]

\* Mutant of DP_value: the data is decoded whether there is any or not.
DP_value_decodeAlways(data) ==
    [value |-> <<X_dataToValue(IF data = <<>> THEN 0 ELSE data[1])>>,
     events |-> <<Ev("dptXlator", "dataToValue", data)>>]

\* Datapoint.value (getter); data is self._data, <<>> for None, and the value
\* is <<>> for None.
DP_value(data) ==
    IF data = <<>> THEN [value |-> <<>>, events |-> <<>>]
    ELSE [value |-> <<X_dataToValue(data[1])>>,
          events |-> <<Ev("dptXlator", "dataToValue", data)>>]

\* Mutant of DP_setData: the data is cached first and checked afterwards.
DP_setData_cacheFirst(data, new) ==
    DpOutcome(IF X_checkData(new) THEN "none" ELSE "DPTXlatorValueError", <<new>>,
              <<Ev("self", "cache", <<new>>), Ev("dptXlator", "checkData", <<new>>)>>)

\* Datapoint._setData
DP_setData(data, new) ==
    IF ~X_checkData(new)
    THEN DpOutcome("DPTXlatorValueError", data, <<Ev("dptXlator", "checkData", <<new>>)>>)
    ELSE DpOutcome("none", <<new>>,
                   <<Ev("dptXlator", "checkData", <<new>>), Ev("self", "cache", <<new>>)>>)

\* self._dptXlator.checkValue(value) raises
DP_rejectsValue(value) == ~X_checkValue(value)

\* Mutant of DP_announce: the owner is notified before the signal is emitted.
DP_announce_ownerFirst(oldValue, data) ==
    DP_value(data).events
        \o <<Ev("owner", "notify", <<oldValue, DP_value(data).value>>)>>
        \o DP_value(data).events
        \o <<Ev("signalChanged", "emit", <<oldValue, DP_value(data).value>>)>>

\* self._signalChanged.emit(oldValue=oldValue, newValue=self.value);
\* self._owner.notify(self, oldValue, self.value)
DP_announce(oldValue, data) ==
    DP_value(data).events
        \o <<Ev("signalChanged", "emit", <<oldValue, DP_value(data).value>>)>>
        \o DP_value(data).events
        \o <<Ev("owner", "notify", <<oldValue, DP_value(data).value>>)>>

\* Mutant of DP_setValue: the value is cached as it is, then checked.
DP_setValue_checkLast(data, value) ==
    DpOutcome(IF DP_rejectsValue(value) THEN "DPTXlatorValueError" ELSE "none",
              <<value>>,
              <<Ev("self", "cache", <<value>>), Ev("dptXlator", "checkValue", <<value>>)>>)

\* Datapoint.value (setter); data is self._data before the call.
DP_setValue(data, value) ==
    LET old == DP_value(data)
        check == old.events \o <<Ev("dptXlator", "checkValue", <<value>>)>>
    IN  IF DP_rejectsValue(value)
        THEN DpOutcome("DPTXlatorValueError", data, check)
        ELSE LET conv == X_valueToData(value)
                 encode == check \o <<Ev("dptXlator", "valueToData", <<value>>)>>
             IN  IF conv.exc # "none"
                 THEN DpOutcome(conv.exc, data, encode)
                 ELSE LET set == DP_setData(data, conv.data) IN
                      IF set.exc # "none"
                      THEN DpOutcome(set.exc, set.data, encode \o set.events)
                      ELSE DpOutcome("none", set.data,
                                     encode \o set.events \o DP_announce(old.value, set.data))

\* Mutant of DP_frameAnnounce: the change signal is emitted as well.
DP_frameAnnounce_signal(oldValue, data) == DP_announce(oldValue, data)

\* self._owner.notify(self, oldValue, self.value)
DP_frameAnnounce(oldValue, data) ==
    DP_value(data).events
        \o <<Ev("owner", "notify", <<oldValue, DP_value(data).value>>)>>

\* Datapoint.frame (setter); data is self._data before the call.
DP_setFrame(data, frame) ==
    LET old == DP_value(data)
        conv == X_frameToData(frame)
        decode == old.events \o <<Ev("dptXlator", "frameToData", frame)>>
    IN  IF conv.exc # "none"
        THEN DpOutcome(conv.exc, data, decode)
        ELSE LET set == DP_setData(data, conv.data) IN
             IF set.exc # "none"
             THEN DpOutcome(set.exc, set.data, decode \o set.events)
             ELSE DpOutcome("none", set.data,
                            decode \o set.events \o DP_frameAnnounce(old.value, set.data))

\* Mutant of DP__setValue: the default is assigned as datapoint.value = default
\* would assign it.
DP__setValue_announced(data, value) == DP_setValue(data, value)

\* Datapoint._setValue; data is self._data before the call.
DP__setValue(data, value) ==
    LET check == <<Ev("dptXlator", "checkValue", <<value>>)>>
    IN  IF DP_rejectsValue(value)
        THEN DpOutcome("DPTXlatorValueError", data, check)
        ELSE LET conv == X_valueToData(value)
                 set == DP_setData(data, conv.data)
             IN  DpOutcome(set.exc, set.data,
                           check \o <<Ev("dptXlator", "valueToData", <<value>>)>>
                                 \o set.events)

\* DPTID(dptId) and DPTXlatorFactory().create(dptId): the exception raised for
\* an id that is no "main.sub" or whose main number no translator handles.
X_create(dptId) ==
    IF dptId \in DOMAIN X_handledDPT THEN "none"
    ELSE IF dptId = "1" THEN "DPTIDValueError"
    ELSE "DPTXlatorValueError"

\* Datapoint.__init__; default is <<>> for None.  data is the new object's
\* _data; there is no object if an exception is raised.
DP_init(access, dptId, default) ==
    IF access \notin {"input", "output", "param"}
    THEN DpOutcome("DatapointValueError", <<>>, <<>>)
    ELSE IF X_create(dptId) # "none"
    THEN DpOutcome(X_create(dptId), <<>>, <<>>)
    ELSE IF default = <<>>
    THEN DpOutcome("none", <<>>, <<>>)
    ELSE DP__setValue(<<>>, default[1])

\* The arguments of the calls named op on a collaborator, in order.
RECURSIVE CallsOn(_, _, _)
CallsOn(events, on, op) ==
    IF events = <<>> THEN <<>>
    ELSE (IF Head(events).on = on /\ Head(events).op = op
          THEN <<Head(events).args>> ELSE <<>>)
            \o CallsOn(Tail(events), on, op)

\* An assignment to the Datapoint, and what its collaborators get of it.
Assign(op, arg, out) ==
    /\ Len(notified \o CallsOn(out.events, "owner", "notify")) <= MaxNotified
    /\ dpData' = out.data
    /\ dpLast' = [op |-> op, arg |-> arg, before |-> dpData, ret |-> <<>>,
                  ctor |-> <<>>, out |-> out]
    /\ signalled' = signalled \o CallsOn(out.events, "signalChanged", "emit")
    /\ notified' = notified \o CallsOn(out.events, "owner", "notify")
    /\ UNCHANGED outsideDatapoint

\* datapoint.value = value
SetValue(value) == Assign("value", <<value>>, DP_setValue(dpData, value))

\* datapoint.frame = frame
SetFrame(frame) == Assign("frame", frame, DP_setFrame(dpData, frame))

\* datapoint.value is read; ret is what the getter returns.
GetValue ==
    /\ dpLast' = [op |-> "get", arg |-> <<>>, before |-> dpData,
                  ret |-> DP_value(dpData).value, ctor |-> <<>>,
                  out |-> DpOutcome("none", dpData, DP_value(dpData).events)]
    /\ UNCHANGED <<dpData, signalled, notified>>
    /\ UNCHANGED outsideDatapoint

\* Arguments given to Datapoint(): access, dptId, default.  Each of the three
\* can be what makes the call raise.
DpCtorArgs ==
    {<<"input", "1.xxx", <<>>>>, <<"output", "1.xxx", <<0>>>>,
     <<"param", "1.xxx", <<1>>>>, <<"input", "1.xxx", <<2>>>>,
     <<"inout", "1.xxx", <<1>>>>, <<"input", "99.001", <<1>>>>,
     <<"input", "1", <<1>>>>}

\* datapoint = Datapoint(owner, name, access, dptId, default); the name keeps
\* the Datapoint it was bound to if Datapoint() raises.
DpNew(access, dptId, default) ==
    LET out == DP_init(access, dptId, default)
    IN  /\ Len(notified \o CallsOn(out.events, "owner", "notify")) <= MaxNotified
        /\ dpData' = IF out.exc = "none" THEN out.data ELSE dpData
        /\ dpLast' = [op |-> "new", arg |-> default, before |-> dpData,
                      ret |-> <<>>, ctor |-> <<access, dptId>>, out |-> out]
        /\ signalled' = signalled \o CallsOn(out.events, "signalChanged", "emit")
        /\ notified' = notified \o CallsOn(out.events, "owner", "notify")
        /\ UNCHANGED outsideDatapoint

NextDatapoint ==
    \/ \E v \in DpValues : SetValue(v)
    \/ \E f \in DpFrames : SetFrame(f)
    \/ GetValue
    \/ \E args \in DpCtorArgs : DpNew(args[1], args[2], args[3])

SpecDatapoint == Init /\ [][NextDatapoint]_vars

\* ------------------------------------------------------------ translator
\* Calls a user makes on one DPTXlatorBoolean, created for "1.xxx".
MaxXlatorCalls == 2

\* Number of data bytes after the byte the data shares with the opcode.
X_typeSize == 0

\* Mutant of X_dataToFrame: the data travels in a byte of its own.
X_dataToFrame_ownByte(data) == <<0, data>>

\* dataToFrame: one byte, with the data in its low 6 bits.
X_dataToFrame(data) == <<data % 64>>

XlatorValues == {-1, 0, 1, 2}
XlatorData == {0, 1}
XlatorFrames == {<<>>, <<0>>, <<1>>, <<0, 1>>}

\* A call on the translator: its argument (arg, or id for an assignment to
\* dpt), the exception it raised, what it returned (ret, or got for a read of
\* dpt) and the DPT the translator is bound to when the call is over.
XCall(op, arg, id, exc, ret, got, dpt) ==
    [op |-> op, arg |-> arg, id |-> id, exc |-> exc, ret |-> ret, got |-> got,
     dpt |-> dpt]

XLogged(call) ==
    /\ Len(xLog) < MaxXlatorCalls
    /\ xLog' = Append(xLog, call)

\* A call that leaves the translator as it is.
XQuery(op, arg, exc, ret) ==
    /\ XLogged(XCall(op, arg, "", exc, ret, "", xDpt))
    /\ UNCHANGED xDpt
    /\ UNCHANGED outsideXlator

\* The limits of the sub-DPTs are not among the sources: the calls that read
\* the limits are made while the translator is bound to the generic DPT.
XCheckValue(value) ==
    /\ xDpt = "DPT_Generic"
    /\ XQuery("checkValue", <<value>>,
              IF X_checkValue(value) THEN "none" ELSE "DPTXlatorValueError", <<>>)

XValueToData(value) ==
    /\ xDpt = "DPT_Generic"
    /\ LET out == X_valueToData(value)
       IN  XQuery("valueToData", <<value>>,
                  IF out.exc = "none" THEN "none" ELSE "DPTXlatorValueError",
                  IF out.exc = "none" THEN <<out.data>> ELSE <<>>)

XDataToValue(data) ==
    /\ xDpt = "DPT_Generic"
    /\ XQuery("dataToValue", <<data>>, "none", <<X_dataToValue(data)>>)

XDataToFrame(data) == XQuery("dataToFrame", <<data>>, "none", X_dataToFrame(data))

XFrameToData(frame) ==
    LET out == X_frameToData(frame)
    IN  XQuery("frameToData", frame, out.exc,
               IF out.exc = "none" THEN <<out.data>> ELSE <<>>)

XTypeSize == XQuery("typeSize", <<>>, "none", <<X_typeSize>>)

\* translator.dpt is read.
XGetDpt ==
    /\ XLogged(XCall("getDpt", <<>>, "", "none", <<>>, xDpt, xDpt))
    /\ UNCHANGED xDpt
    /\ UNCHANGED outsideXlator

\* translator.dpt = dptId
XSetDpt(dptId) ==
    /\ xDpt' = X_setDpt(xDpt, dptId)
    /\ XLogged(XCall("setDpt", <<>>, dptId, "none", <<>>, "", xDpt'))
    /\ UNCHANGED outsideXlator

NextXlator ==
    \/ \E v \in XlatorValues : XCheckValue(v)
    \/ \E v \in XlatorValues : XValueToData(v)
    \/ \E d \in XlatorData : XDataToValue(d)
    \/ \E d \in XlatorData : XDataToFrame(d)
    \/ \E f \in XlatorFrames : XFrameToData(f)
    \/ XTypeSize
    \/ XGetDpt
    \/ \E id \in DOMAIN X_handledDPT : XSetDpt(id)

SpecXlator == Init /\ [][NextXlator]_vars

\* ----------------------------------------------------------------- Flags
\* A string is the sequence of its letters.
FL_LETTERS == <<"C", "R", "W", "T", "U", "I", "S">>

Letters(string) == {string[i] : i \in DOMAIN string}
\* The place of a letter among the flag letters; 0 for any other letter.
FL_place(letter) ==
    IF \E k \in DOMAIN FL_LETTERS : FL_LETTERS[k] = letter
    THEN CHOOSE k \in DOMAIN FL_LETTERS : FL_LETTERS[k] = letter
    ELSE 0

\* Mutant of FL_valid: flag letters, none twice, in any order.
FL_valid_anyOrder(raw) ==
    /\ \A i \in DOMAIN raw : FL_place(raw[i]) > 0
    /\ \A i, j \in DOMAIN raw : i # j => raw[i] # raw[j]

\* What the constructor accepts: flag letters only, each at most once, in the
\* order C R W T U I S.
FL_valid(raw) ==
    /\ \A i \in DOMAIN raw : FL_place(raw[i]) > 0
    /\ \A i, j \in DOMAIN raw : i < j => FL_place(raw[i]) < FL_place(raw[j])

\* Flags(raw): the exception raised and the object made, if any.
FL_init(raw) ==
    IF FL_valid(raw) THEN [exc |-> "none", made |-> <<[_raw |-> raw]>>]
    ELSE [exc |-> "FlagsValueError", made |-> <<>>]

\* flags.raw
FL_raw(flags) == flags._raw

\* One accessor for each letter (communicate, read, write, transmit, update,
\* init, stateless): whether the letter is set.
FL_has(flags, letter) == letter \in Letters(flags._raw)

\* Mutant of FL_str: the letters that are set, last first.
FL_str_reversed(flags) ==
    [i \in DOMAIN flags._raw |-> flags._raw[Len(flags._raw) + 1 - i]]

\* str(flags): the letters that are set, in the order of FL_LETTERS.
FL_str(flags) == SelectSeq(FL_LETTERS, LAMBDA letter : FL_has(flags, letter))

\* repr(flags)
FL_repr(flags) == <<"<Flags('">> \o FL_str(flags) \o <<"')>">>

\* Mutant of FL_call: the letters asked for are set, and asked for in order.
FL_call_inOrder(flags, value) ==
    /\ \A i \in DOMAIN value : FL_has(flags, value[i])
    /\ \A i, j \in DOMAIN value : i < j => FL_place(value[i]) < FL_place(value[j])

\* flags(value): whether every letter of value is set.
FL_call(flags, value) == \A i \in DOMAIN value : FL_has(flags, value[i])

\* Strings given to the constructor, and strings asked for.
FlagsStrings ==
    {<<"C", "R", "W", "T", "U", "I", "S">>, <<"C", "R", "T">>, <<"C">>,
     <<"C", "W", "T", "U">>, <<"R", "S">>,
     <<"A">>, <<"C", "W", "U", "T">>, <<"C", "C", "W", "U", "T">>,
     <<"C", "R", "W", "T", "U", "I", "S", "A">>}
FlagsQueries ==
    {<<"A">>, <<"A", "B", "D">>, <<"C">>, <<"W">>, <<"C", "R", "T">>,
     <<"C", "R", "T", "W", "I", "U", "S">>, <<"S", "C">>, <<"C", "A">>}

\* Calls made on Flags in a run.
MaxFlagsCalls == 2

FlCall(op, arg, exc, made, ret, truth) ==
    [op |-> op, arg |-> arg, exc |-> exc, made |-> made, ret |-> ret,
     truth |-> truth]

FlLogged(call) ==
    /\ Len(flLog) < MaxFlagsCalls
    /\ flLog' = Append(flLog, call)

\* flags = Flags(raw); the name keeps what it was bound to if Flags() raises.
FlNew(raw) ==
    LET out == FL_init(raw)
    IN  /\ flObj' = IF out.exc = "none" THEN out.made ELSE flObj
        /\ FlLogged(FlCall("new", raw, out.exc, out.made, <<>>, FALSE))
        /\ UNCHANGED outsideFlags

\* A call on the Flags the name is bound to.
FlQuery(op, arg, ret, truth) ==
    /\ FlLogged(FlCall(op, arg, "none", <<>>, ret, truth))
    /\ UNCHANGED flObj
    /\ UNCHANGED outsideFlags

FlStr == flObj # <<>> /\ FlQuery("str", <<>>, FL_str(flObj[1]), FALSE)
FlRepr == flObj # <<>> /\ FlQuery("repr", <<>>, FL_repr(flObj[1]), FALSE)
FlRaw == flObj # <<>> /\ FlQuery("raw", <<>>, FL_raw(flObj[1]), FALSE)
FlHas(letter) ==
    flObj # <<>> /\ FlQuery("has", <<letter>>, <<>>, FL_has(flObj[1], letter))
FlTest(value) ==
    flObj # <<>> /\ FlQuery("call", value, <<>>, FL_call(flObj[1], value))

NextFlags ==
    \/ \E raw \in FlagsStrings : FlNew(raw)
    \/ FlStr
    \/ FlRepr
    \/ FlRaw
    \/ \E k \in DOMAIN FL_LETTERS : FlHas(FL_LETTERS[k])
    \/ \E value \in FlagsQueries : FlTest(value)

SpecFlags == Init /\ [][NextFlags]_vars

\* ------------------------------------------------------------------- DPT
\* DPT objects a program constructs.
MaxDpts == 2

\* A value given as limits: its Python type, and for a tuple or a list its
\* items, which are numbers or names (a name is written as its place in
\* DptNames).
DptNames == <<"Off", "On", "Stop">>
Limits(type, elems, items) == [type |-> type, elems |-> elems, items |-> items]

\* Mutant of Py_tuple: a list is kept as it is, not copied.
Py_tuple_same(limits) ==
    IF limits.type \in {"tuple", "list"}
    THEN [exc |-> "none", value |-> limits]
    ELSE [exc |-> "TypeError", value |-> Limits("tuple", limits.elems, <<>>)]

\* tuple(limits): a tuple of the items, which no longer is the caller's
\* sequence; TypeError for a value that is not iterable.
Py_tuple(limits) ==
    IF limits.type \in {"tuple", "list"}
    THEN [exc |-> "none", value |-> Limits("tuple", limits.elems, limits.items)]
    ELSE [exc |-> "TypeError", value |-> Limits("tuple", limits.elems, <<>>)]

\* DPT(dptId, desc, limits, unit): the exception raised and the object made.
DPT_init(dptId, desc, limits, unit) ==
    LET coerced == Py_tuple(limits)
    IN  IF coerced.exc = "TypeError"
        THEN [exc |-> "DPTValueError", made |-> <<>>]
        ELSE [exc |-> "none",
              made |-> <<[_id |-> dptId, _desc |-> desc,
                          _limits |-> coerced.value, _unit |-> unit]>>]

DptIds == {"9.001"}
DptUnits == {<<>>, <<"C">>}
DptLimits ==
    {Limits("int", "numbers", <<-273>>), Limits("NoneType", "numbers", <<>>),
     Limits("tuple", "numbers", <<-273, 100>>), Limits("tuple", "numbers", <<100, -273>>),
     Limits("tuple", "numbers", <<0, 0>>), Limits("tuple", "numbers", <<>>),
     Limits("list", "numbers", <<0, 1>>), Limits("list", "numbers", <<1, 0>>),
     Limits("tuple", "numbers", <<0, 1, 2>>),
     Limits("tuple", "names", <<1, 2>>), Limits("list", "names", <<1, 2, 3>>)}

\* dpt.id, dpt.desc, dpt.limits, dpt.unit: each returns the field.  A field
\* that is a list is the caller's list, read as the caller has left it.
DPT_read(dpt, callers) ==
    [id |-> dpt._id, desc |-> dpt._desc, unit |-> dpt._unit,
     limits |-> IF dpt._limits.type = "list" THEN callers ELSE dpt._limits]

\* dpt.id = ..., dpt.desc = ..., dpt.limits = ..., dpt.unit = ...: the
\* properties have no setter.
DPT_setattr(dpt, attr, value) == [exc |-> "AttributeError", obj |-> dpt]

\* dpt = DPT(dptId, "Temperature", limits, unit)
DptNew(dptId, limits, unit) ==
    LET out == DPT_init(dptId, "Temperature", limits, unit)
    IN  /\ Len(dpts) < MaxDpts
        /\ dpts' = dpts \o out.made
        /\ dptLast' = [dptLast EXCEPT
                           !.op = "new", !.attr = "", !.limits = limits,
                           !.given = [id |-> dptId, desc |-> "Temperature",
                                      unit |-> unit, limits |-> limits],
                           !.exc = out.exc, !.made = out.made]
        /\ UNCHANGED outsideDpt

\* The properties of the DPT made last are read.
DptRead ==
    /\ dptLast.made # <<>>
    /\ LET dpt == dpts[Len(dpts)]
       IN  dptLast' = [dptLast EXCEPT
                           !.op = "read", !.attr = "", !.exc = "none",
                           !.ret = DPT_read(dpt, dptLast.limits)]
    /\ UNCHANGED dpts
    /\ UNCHANGED outsideDpt

\* A property of the DPT made last is assigned to.
DptAssign(attr) ==
    /\ dptLast.made # <<>>
    /\ LET out == DPT_setattr(dpts[Len(dpts)], attr, "other")
       IN  /\ dpts' = [dpts EXCEPT ![Len(dpts)] = out.obj]
           /\ dptLast' = [dptLast EXCEPT !.op = "assign", !.attr = attr,
                                         !.exc = out.exc]
    /\ UNCHANGED outsideDpt

\* The caller changes the list it gave as limits: limits[0] = 7.
DptMutate ==
    /\ dptLast.made # <<>>
    /\ dptLast.limits.type = "list"
    /\ dptLast.limits.items[1] # 7
    /\ dptLast' = [dptLast EXCEPT !.op = "mutate", !.attr = "", !.exc = "none",
                                  !.limits.items = <<7>> \o Tail(@)]
    /\ UNCHANGED dpts
    /\ UNCHANGED outsideDpt

NextDpt ==
    \/ \E id \in DptIds, l \in DptLimits, u \in DptUnits : DptNew(id, l, u)
    \/ DptRead
    \/ \E attr \in {"id", "desc", "limits", "unit"} : DptAssign(attr)
    \/ DptMutate

SpecDpt == Init /\ [][NextDpt]_vars

\* ---------------------------------------------------------------- claims
\* The two packet-type bits of a byte, as 0x00, 0x40, 0x80 or 0xc0.
PacketTypeOf(byte) == (byte \div 64) * 64

\* The indication layer 4 was given in the last call, straight or through layer
\* 3: <<>> when there was none, else <<[args, calls, exc, logs]>>, calls being
\* what layer 4 gave its listener.
L4Ind ==
    IF last.op = "groupDataInd"
    THEN <<[args |-> last.args, calls |-> last.out.up, exc |-> last.out.exc,
            logs |-> last.out.logs]>>
    ELSE IF last.op \in {"dataInd", "loopback"} /\ last.out.up # <<>>
    THEN <<[args |-> last.out.up[1], calls |-> last.out.top, exc |-> last.out.exc,
            logs |-> Tail(last.out.logs)]>>
    ELSE <<>>

\* C1: with a listener registered, T_GroupDataService.groupDataInd calls the
\* listener exactly once when the two top bits of tPDU[0] are 0x00 (unnumbered
\* data) and never for 0x40, 0x80 or 0xc0, where it returns without raising.
C1_OnlyUnnumberedDataIsForwarded ==
    \A i \in DOMAIN L4Ind :
        LET ind == L4Ind[i] IN
        (tgds._tgdl # None /\ Len(ind.args.data) > 0) =>
            IF PacketTypeOf(ind.args.data[1]) = 0
            THEN Len(ind.calls) = 1 /\ ind.exc = "none"
            ELSE ind.calls = <<>> /\ ind.exc = "none"

\* A numbered-data packet (0x40) was given to layer 4, whose listener is set,
\* and went no further.
C1_Witness ==
    /\ last.op = "groupDataInd"
    /\ tgds._tgdl = AGDS
    /\ Len(last.args.data) > 1
    /\ PacketTypeOf(last.args.data[1]) = 64
    /\ last.out.up = <<>>
    /\ last.out.exc = "none"

\* C2: with a listener registered, N_GroupDataService.dataInd forwards a frame
\* exactly when its destination is a group address that is not null; a frame
\* for an individual address or for the null group address is not forwarded and
\* raises nothing, whatever became of the frame before it.
C2_OnlyNonNullGroupIsForwarded ==
    (last.op = "dataInd" /\ ngds._ngdl # None) =>
        LET dest == last.args.destinationAddress IN
        IF dest.kind = "group" /\ dest.raw # 0
        THEN Len(last.out.up) = 1
        ELSE last.out.up = <<>> /\ last.out.top = <<>> /\ last.out.exc = "none"

\* A frame for a non-null group address is forwarded right after a frame for
\* the null group address was dropped.
C2_Witness ==
    /\ last.op = "dataInd"
    /\ ngds._ngdl = TGDS
    /\ hist = "null destination"
    /\ Len(last.out.up) = 1
    /\ last.out.exc = "none"

\* C3: N_GroupDataService.groupDataReq for the null group address fails with
\* N_GDSValueError, and the link layer's send queue is after the call what it
\* was before it.
C3_NullGroupAddressIsRejected ==
    [][(last'.op = "N_groupDataReq" /\ last'.args.gad.raw = 0) =>
            /\ last'.out.exc = "N_GDSValueError"
            /\ last'.out.sent = <<>>
            /\ l2Queue' = l2Queue]_vars

\* A request for the null group address was rejected while a frame was waiting
\* in the send queue.
C3_Witness ==
    /\ last.op = "N_groupDataReq"
    /\ last.args.gad = GroupAddress(0)
    /\ last.out.exc = "N_GDSValueError"
    /\ l2Queue # <<>>

\* The request layer 3 was given in the last call, straight or through layer
\* 4: <<>> when there was none, else <<ReqCall>>.
L3Req ==
    IF last.op = "N_groupDataReq" THEN <<last.args>>
    ELSE IF last.op = "T_groupDataReq" THEN last.out.down
    ELSE <<>>

\* C4: a frame that T_GroupDataService.groupDataReq handed to the link layer
\* and that comes back unchanged through N_GroupDataService.dataInd is given to
\* the layer-4 listener exactly once, with the group address and the priority
\* of the request and the payload of the request, the two top bits of its byte
\* 0 cleared.
C4_LoopbackRoundTrip ==
    (last.op = "loopback" /\ hist = "sent by layer 4"
        /\ ngds._ngdl = TGDS /\ tgds._tgdl = AGDS) =>
        LET frame == last.args
            gad == frame.destinationAddress
            payload == Slice1(frame.npdu)
        IN  T_groupDataReq(frame.hopCount, gad, frame.priority, payload).sent = <<frame>> =>
                /\ Len(last.out.top) = 1
                /\ last.out.top[1].gad = gad
                /\ last.out.top[1].priority = frame.priority
                /\ Len(last.out.top[1].data) = Len(payload)
                /\ last.out.top[1].data[1] = payload[1] % 64
                /\ \A i \in 2..Len(payload) : last.out.top[1].data[i] = payload[i]

\* C5: every inbound frame dropped for a protocol violation (by layer 4 for its
\* packet type, by layer 3 for a destination that is no group address or is the
\* null group address) leaves a log record of the drop, beyond the record of
\* the call's arguments that every call leaves on entry.
C5_EveryDropIsLogged ==
    /\ \A i \in DOMAIN L4Ind :
            LET ind == L4Ind[i] IN
            (tgds._tgdl # None /\ Len(ind.args.data) > 0
                /\ PacketTypeOf(ind.args.data[1]) # 0) =>
                \E k \in DOMAIN ind.logs :
                    /\ ind.logs[k].where = "T_GroupDataService.groupDataInd"
                    /\ ind.logs[k].what # "entry"
    /\ (last.op = "dataInd" /\ ngds._ngdl # None
            /\ ~(last.args.destinationAddress.kind = "group"
                    /\ last.args.destinationAddress.raw # 0)) =>
            \E k \in DOMAIN last.out.logs :
                /\ last.out.logs[k].where = "N_GroupDataService.dataInd"
                /\ last.out.logs[k].what # "entry"

\* C6: the frame an accepted N_GroupDataService.groupDataReq hands to the link
\* layer has a network payload one byte longer than the request's payload, its
\* byte 0 the payload's length less one and the payload after it, and the
\* destination and priority of the request; it is the frame the send queue
\* ends with.
C6_NetworkPayloadIsLengthPrefixed ==
    \A i \in DOMAIN L3Req :
        LET req == L3Req[i] IN
        last.out.exc = "none" =>
            /\ Len(last.out.sent) = 1
            /\ l2Queue # <<>>
            /\ l2Queue[Len(l2Queue)] = last.out.sent[1]
            /\ LET frame == last.out.sent[1] IN
                /\ Len(frame.npdu) = Len(req.data) + 1
                /\ frame.npdu[1] = Len(req.data) - 1
                /\ \A k \in 1..Len(req.data) : frame.npdu[k + 1] = req.data[k]
                /\ frame.destinationAddress = req.gad
                /\ frame.priority = req.priority

\* A request with a payload of two bytes or more was accepted.
C6_Witness ==
    /\ last.op = "N_groupDataReq"
    /\ last.out.exc = "none"
    /\ Len(last.args.data) >= 2
    /\ Len(last.out.sent) = 1

\* C7: what N_GroupDataService.dataInd gives its listener is the frame's
\* network payload less its first byte, the other bytes in order, with the
\* source, the destination and the priority of the frame.
C7_LengthPrefixIsStripped ==
    (last.op = "dataInd" /\ last.out.up # <<>>) =>
        LET frame == last.args
            ind == last.out.up[1]
        IN  /\ Len(last.out.up) = 1
            /\ Len(ind.data) = (IF frame.npdu = <<>> THEN 0 ELSE Len(frame.npdu) - 1)
            /\ \A k \in 1..Len(ind.data) : ind.data[k] = frame.npdu[k + 1]
            /\ ind.src = frame.sourceAddress
            /\ ind.gad = frame.destinationAddress
            /\ ind.priority = frame.priority

\* A frame with a network payload of three bytes or more was forwarded.
C7_Witness ==
    /\ last.op = "dataInd"
    /\ Len(last.out.up) = 1
    /\ Len(last.args.npdu) >= 3
    /\ last.out.up[1].data # <<>>

\* C8: what T_GroupDataService.groupDataInd gives its listener is the tPDU
\* with the two top bits of byte 0 cleared and every other byte as received,
\* with the src, gad and priority it was given.
C8_PacketTypeBitsAreCleared ==
    \A i \in DOMAIN L4Ind :
        LET ind == L4Ind[i] IN
        ind.calls # <<>> =>
            LET call == ind.calls[1] IN
            /\ Len(ind.calls) = 1
            /\ Len(call.data) = Len(ind.args.data)
            /\ call.data[1] = ind.args.data[1] % 64
            /\ \A k \in 2..Len(call.data) : call.data[k] = ind.args.data[k]
            /\ call.src = ind.args.src
            /\ call.gad = ind.args.gad
            /\ call.priority = ind.args.priority

\* A packet of two bytes or more, with sequence-number bits set in byte 0, was
\* given to the layer-4 listener.
C8_Witness ==
    /\ last.op = "groupDataInd"
    /\ Len(last.out.up) = 1
    /\ Len(last.args.data) >= 2
    /\ last.args.data[1] > 3
    /\ last.out.up[1].data[1] = last.args.data[1]

\* C9: T_GroupDataService.groupDataReq ORs 0x00 into byte 0 of the caller's
\* buffer in place (which leaves every byte as it was), calls layer 3's
\* groupDataReq exactly once with the gad, the priority and that buffer, and
\* ends as that call ends: with its result, or with the error it raised.
C9_RequestIsDelegatedToLayer3 ==
    (last.op = "T_groupDataReq" /\ last.args.data # <<>>) =>
        LET n == N_groupDataReq(ngds._hopCount, last.args.gad, last.args.priority,
                                last.out.buf)
        IN  /\ last.out.buf = last.args.data
            /\ last.out.down = <<ReqCall(last.args.gad, last.args.priority, last.out.buf)>>
            /\ last.out.exc = n.exc
            /\ last.out.ret = n.ret
            /\ last.out.sent = n.sent
            /\ last.args.gad.raw = 0 => last.out.exc = "N_GDSValueError"
            /\ last.args.gad.raw # 0 => last.out.exc = "none" /\ last.out.ret = LdsResult

\* A request for the null group address, its byte 0 with a packet-type bit
\* set, reached layer 3, whose error came back to the caller.
C9_Witness ==
    /\ last.op = "T_groupDataReq"
    /\ last.args.gad = GroupAddress(0)
    /\ Len(last.args.data) >= 2
    /\ PacketTypeOf(last.args.data[1]) # 0
    /\ Len(last.out.down) = 1
    /\ last.out.exc = "N_GDSValueError"

\* C10: N_GroupDataService is constructed only with a hop count in 1..6; with
\* any other it raises N_GDSValueError, no object exists and the link layer has
\* no listener; every frame handed to the link layer carries the hop count the
\* service was constructed with.
C10_HopCountIsInRange ==
    /\ last.op = "N_init" =>
            IF last.args.hopCount \in 1..6
            THEN /\ last.out.exc = "none"
                 /\ ngds # NoObject
                 /\ ngds._hopCount = last.args.hopCount
                 /\ ldsListener = NGDS
            ELSE /\ last.out.exc = "N_GDSValueError"
                 /\ ngds = NoObject
                 /\ ldsListener = None
    /\ ngds # NoObject => ngds._hopCount \in 1..6
    /\ \A k \in DOMAIN l2Queue :
            l2Queue[k].hopCount = ngds._hopCount /\ l2Queue[k].hopCount \in 1..6
    /\ \A k \in DOMAIN last.out.sent :
            last.out.sent[k].hopCount = ngds._hopCount

\* A construction with hop count 7 has failed: no service exists and the link
\* layer has no listener.
C10_Witness ==
    /\ last.op = "N_init"
    /\ last.args.hopCount = 7
    /\ last.out.exc = "N_GDSValueError"
    /\ ngds = NoObject
    /\ ldsListener = None

\* The record of a drop for want of a listener is among the log records.
NoListenerLogged(logs, where) ==
    \E k \in DOMAIN logs :
        /\ logs[k].level = "warning"
        /\ logs[k].where = where
        /\ logs[k].what = "not listener defined"

\* C11: an indication given to a layer whose listener is None (dataInd at
\* layer 3, groupDataInd at layer 4, straight or through layer 3) is logged and
\* dropped whatever the frame holds: nothing is raised, nothing is forwarded,
\* the frame's bytes and the fields of both layers, the link layer's listener
\* and its send queue are after the call what they were before it.
C11_NoListenerDropsQuietly ==
    [][ /\ (last'.op = "dataInd" /\ ngds._ngdl = None) =>
                /\ last'.out.exc = "none"
                /\ last'.out.up = <<>> /\ last'.out.top = <<>>
                /\ last'.out.buf = last'.args.npdu
                /\ NoListenerLogged(last'.out.logs, "N_GroupDataService.dataInd")
                /\ <<ngds, tgds, ldsListener, l2Queue>>'
                        = <<ngds, tgds, ldsListener, l2Queue>>
        /\ \A i \in DOMAIN L4Ind' :
                LET ind == (L4Ind')[i] IN
                tgds._tgdl = None =>
                    /\ ind.exc = "none"
                    /\ ind.calls = <<>>
                    /\ last'.out.top = <<>>
                    /\ last'.op = "groupDataInd" => last'.out.buf = ind.args.data
                    /\ NoListenerLogged(ind.logs, "T_GroupDataService.groupDataInd")
                    /\ <<ngds, tgds, ldsListener, l2Queue>>'
                            = <<ngds, tgds, ldsListener, l2Queue>>
      ]_vars

\* Layer 4, its listener None, was given an empty tPDU, whose byte 0 a layer
\* with a listener fails to read, and dropped it without raising.
C11_Witness ==
    /\ last.op = "groupDataInd"
    /\ tgds._tgdl = None
    /\ last.args.data = <<>>
    /\ last.out.exc = "none"
    /\ last.out.up = <<>>
    /\ NoListenerLogged(last.out.logs, "T_GroupDataService.groupDataInd")

\* Stack.start() has returned and nothing was called since: main.trace is the
\* steps it took.
StartReturned ==
    /\ main.call = "none"
    /\ main.returns # <<>>
    /\ main.returns[Len(main.returns)] = "start"

\* The read requests for Group g among the steps of a trace.
ReadsOf(trace, g) == Cardinality({i \in DOMAIN trace : trace[i] = Step("read", g)})

\* C12: one call of Stack.start() issues exactly one read request for every
\* Group that has a listener whose flags have init set, and none for a Group
\* that has no such listener, however many listeners the Group has and in
\* whatever order.
C12_OneReadPerInitGroup ==
    StartReturned =>
        \A g \in GroupIds :
            ReadsOf(main.trace, g)
                = IF \E i \in DOMAIN groups[g] : groups[g][i] = "init" THEN 1 ELSE 0

\* Stack.start() has returned; a Group with two init listeners got one read
\* request, and a Group whose only listener has init clear got none.
C12_Witness ==
    /\ StartReturned
    /\ groups["g1"] = <<"init", "init">>
    /\ groups["g2"] = <<"noinit">>
    /\ ReadsOf(main.trace, "g1") = 1
    /\ ReadsOf(main.trace, "g2") = 0

\* Stack.stop() has returned and nothing was called since.
StopReturned ==
    /\ main.call = "none"
    /\ main.returns # <<>>
    /\ main.returns[Len(main.returns)] = "stop"

C14_NothingMovesAfterStop ==
    [][ /\ (StopReturned /\ StopReturned') =>
                /\ rxDelivered' = rxDelivered
                /\ l2Queue' = l2Queue
        /\ (main.call = "stop" /\ StopReturned') =>
                /\ \E i \in DOMAIN main'.trace : main'.trace[i].op = "tc.stop"
                /\ \E i \in DOMAIN main'.trace : main'.trace[i].op = "lds.stop"
                /\ ~Alive(tcThread') /\ ~Alive(ldsThread')
      ]_vars

\* Stack.stop() has returned after a start(); a read request is still in the
\* send queue, and the bus still has a frame that was never taken from it.
C14_Witness ==
    /\ StopReturned
    /\ \E i \in DOMAIN main.returns : main.returns[i] = "start"
    /\ l2Queue # <<>>
    /\ rxDelivered < MaxRx
    /\ tcThread = "terminated"
    /\ ldsThread = "terminated"

\* The places of the steps named op in a trace.
PlacesOf(trace, op) == {i \in DOMAIN trace : trace[i].op = op}

\* C15: in Stack.start() the link layer's thread is started before the
\* transceiver's; no read request is issued before both are started and the
\* settle delay after them has passed; between two read requests there is a
\* pacing delay.
C15_StartIsOrdered ==
    (main.call = "start" \/ StartReturned) =>
        LET t == main.trace IN
        /\ tcThread # "initial" => ldsThread # "initial"
        /\ \A i \in PlacesOf(t, "tc.start") : \E j \in PlacesOf(t, "lds.start") : j < i
        /\ \A i \in PlacesOf(t, "settle") :
                /\ \E j \in PlacesOf(t, "lds.start") : j < i
                /\ \E j \in PlacesOf(t, "tc.start") : j < i
        /\ \A i \in PlacesOf(t, "read") :
                /\ \E j \in PlacesOf(t, "settle") : j < i
                /\ ldsThread # "initial" /\ tcThread # "initial"
        /\ \A i, k \in PlacesOf(t, "read") :
                i < k => \E j \in PlacesOf(t, "pace") : i < j /\ j < k

\* Stack.start() has returned after a read request for each of two Groups.
C15_Witness ==
    /\ StartReturned
    /\ ReadsOf(main.trace, "g1") = 1
    /\ ReadsOf(main.trace, "g2") = 1
    /\ Cardinality(PlacesOf(main.trace, "pace")) = 2

\* A frame layers 3 and 4 let through: for a group address that is not null,
\* with a transport payload whose byte 0 has the packet type unnumbered data.
Accepted(cEMI) ==
    /\ cEMI.destinationAddress.kind = "group"
    /\ cEMI.destinationAddress.raw # 0
    /\ Len(cEMI.npdu) >= 2
    /\ PacketTypeOf(cEMI.npdu[2]) = 0

\* The call the layer-4 listener gets for an accepted frame.
SeenFor(cEMI) ==
    IndCall(cEMI.sourceAddress, cEMI.destinationAddress, cEMI.priority,
            [i \in 1..(Len(cEMI.npdu) - 1) |->
                IF i = 1 THEN cEMI.npdu[2] % 64 ELSE cEMI.npdu[i + 1]])

RECURSIVE SeenForAll(_)
SeenForAll(frames) ==
    IF frames = <<>> THEN <<>>
    ELSE (IF Accepted(Head(frames)) THEN <<SeenFor(Head(frames))>> ELSE <<>>)
            \o SeenForAll(Tail(frames))

\* C17: whenever dataInd has returned, the layer-4 listener has been called for
\* every accepted frame given to dataInd so far, once each and in the order the
\* frames arrived, and for no other frame.
C17_DeliveryKeepsArrivalOrder ==
    seen = SeenForAll(arrived)

\* Three frames have arrived, the second of them dropped; the listener has seen
\* the first and the third, which differ, in that order.
C17_Witness ==
    /\ Len(arrived) = 3
    /\ Accepted(arrived[1]) /\ ~Accepted(arrived[2]) /\ Accepted(arrived[3])
    /\ arrived[1] # arrived[3]
    /\ seen = <<SeenFor(arrived[1]), SeenFor(arrived[3])>>

\* The names of the calls among events, in order.
OpsOf(events) == [i \in DOMAIN events |-> events[i].op]

\* The value Datapoint.value gives for cached data: <<>> for None.
ValueOf(data) == IF data = <<>> THEN <<>> ELSE <<X_dataToValue(data[1])>>

\* C18: an assignment to Datapoint.value that succeeds calls checkValue, then
\* valueToData, then caches the data, then emits the change signal once, with
\* the value before the assignment and the value decoded from the data now
\* cached, then notifies the owner once, with the same two values: the owner
\* is not notified before the signal is emitted.
C18_ValueSetterStepsInOrder ==
    (dpLast.op = "value" /\ dpLast.out.exc = "none") =>
        LET e == dpLast.out.events
            readOld == IF dpLast.before = <<>> THEN <<>> ELSE <<"dataToValue">>
            oldNew == <<ValueOf(dpLast.before), ValueOf(dpData)>>
        IN  /\ OpsOf(e) = readOld \o <<"checkValue", "valueToData", "checkData", "cache",
                                        "dataToValue", "emit", "dataToValue", "notify">>
            /\ CallsOn(e, "dptXlator", "checkValue") = <<dpLast.arg>>
            /\ CallsOn(e, "dptXlator", "valueToData") = <<dpLast.arg>>
            /\ CallsOn(e, "self", "cache") = <<dpData>>
            /\ CallsOn(e, "signalChanged", "emit") = <<oldNew>>
            /\ CallsOn(e, "owner", "notify") = <<oldNew>>
            /\ \A i \in PlacesOf(e, "notify") : \E j \in PlacesOf(e, "emit") : j < i

\* The value 1 was assigned to a Datapoint whose value was 0: the signal and
\* the owner both got (0, 1).
C18_Witness ==
    /\ dpLast.op = "value"
    /\ dpLast.out.exc = "none"
    /\ dpLast.before = <<0>>
    /\ dpLast.arg = <<1>>
    /\ signalled # <<>> /\ signalled[Len(signalled)] = <<<<0>>, <<1>>>>
    /\ notified # <<>> /\ notified[Len(notified)] = <<<<0>>, <<1>>>>

\* C19: an assignment to Datapoint.value of a value outside the limits of the
\* DPT fails with DPTXlatorValueError, and nothing has changed: the cached data
\* is what it was, the data was not cached, the signal was not emitted, the
\* owner was not notified.
C19_ValueOutsideLimitsChangesNothing ==
    (dpLast.op = "value"
        /\ (dpLast.arg[1] < X_limits[1] \/ dpLast.arg[1] > X_limits[Len(X_limits)])) =>
        /\ dpLast.out.exc = "DPTXlatorValueError"
        /\ dpData = dpLast.before
        /\ CallsOn(dpLast.out.events, "self", "cache") = <<>>
        /\ CallsOn(dpLast.out.events, "signalChanged", "emit") = <<>>
        /\ CallsOn(dpLast.out.events, "owner", "notify") = <<>>

\* The value 2 was assigned to a Datapoint that had data cached and an owner
\* who had been notified before; the assignment failed.
C19_Witness ==
    /\ dpLast.op = "value"
    /\ dpLast.arg = <<2>>
    /\ dpLast.before = <<1>>
    /\ dpLast.out.exc = "DPTXlatorValueError"
    /\ dpData = <<1>>
    /\ notified # <<>>

\* C20: an assignment to Datapoint.frame that succeeds decodes the frame with
\* the Datapoint's own translator (self._dptXlator), caches the decoded data
\* and notifies the owner once, with the value before the assignment and the
\* value after it; it does not emit the change signal.
C20_FrameSetterNotifiesOwnerOnly ==
    (dpLast.op = "frame" /\ dpLast.out.exc = "none") =>
        LET e == dpLast.out.events IN
        /\ CallsOn(e, "dptXlator", "frameToData") = <<dpLast.arg>>
        /\ CallsOn(e, "self", "cache") = <<dpData>>
        /\ dpData = <<X_frameToData(dpLast.arg).data>>
        /\ CallsOn(e, "owner", "notify") = <<<<ValueOf(dpLast.before), ValueOf(dpData)>>>>
        /\ \A i \in DOMAIN e : e[i].op # "emit" /\ e[i].on \in {"dptXlator", "self", "owner"}

\* The frame [0x01] was assigned to a Datapoint whose value was 0 and whose
\* signal had never been emitted: the owner got (0, 1), the signal nothing.
C20_Witness ==
    /\ dpLast.op = "frame"
    /\ dpLast.out.exc = "none"
    /\ dpLast.arg = <<1>>
    /\ dpLast.before = <<0>>
    /\ notified # <<>> /\ notified[Len(notified)] = <<<<0>>, <<1>>>>
    /\ signalled = <<>>

\* C21: Datapoint.value read while no data is cached returns None and makes
\* no call of dataToValue, whatever failed assignments came before; read with
\* data cached, it calls dataToValue once, on that data, and returns what the
\* call returns.
C21_ValueIsNoneUntilDataIsCached ==
    dpLast.op = "get" =>
        /\ dpLast.out.exc = "none"
        /\ IF dpLast.before = <<>>
           THEN /\ dpLast.ret = <<>>
                /\ dpLast.out.events = <<>>
           ELSE /\ dpLast.ret = <<X_dataToValue(dpLast.before[1])>>
                /\ OpsOf(dpLast.out.events) = <<"dataToValue">>
                /\ CallsOn(dpLast.out.events, "dptXlator", "dataToValue")
                        = <<dpLast.before>>

\* The value of a Datapoint without data was read: None, and no call made.
C21_Witness ==
    /\ dpLast.op = "get"
    /\ dpLast.before = <<>>
    /\ dpData = <<>>
    /\ dpLast.ret = <<>>
    /\ dpLast.out.events = <<>>

\* The calls on the translator of one kind.
XCallsOf(op) == {i \in DOMAIN xLog : xLog[i].op = op}

\* C22: on the Boolean translator valueToData accepts the values 0 and 1 and
\* dataToValue of the data it returns is the value again; frameToData of the
\* frame dataToFrame returns for the data 0 or 1 is the data again.
C22_BooleanConversionsAreInverses ==
    \A i \in DOMAIN xLog :
        /\ (xLog[i].op = "valueToData" /\ xLog[i].arg[1] \in {0, 1})
               => xLog[i].exc = "none"
        /\ (i + 1 \in DOMAIN xLog /\ xLog[i + 1].arg = xLog[i].ret) =>
               /\ (xLog[i].op = "valueToData" /\ xLog[i].exc = "none"
                       /\ xLog[i + 1].op = "dataToValue")
                      => xLog[i + 1].ret = xLog[i].arg
               /\ (xLog[i].op = "dataToFrame" /\ xLog[i + 1].op = "frameToData")
                      => /\ xLog[i + 1].exc = "none"
                         /\ xLog[i + 1].ret = xLog[i].arg

\* The value 1 was encoded and the data decoded again.
C22_Witness ==
    /\ Len(xLog) = 2
    /\ xLog[1].op = "valueToData" /\ xLog[1].arg = <<1>> /\ xLog[1].exc = "none"
    /\ xLog[2].op = "dataToValue" /\ xLog[2].arg = xLog[1].ret
    /\ xLog[2].ret = <<1>>

\* C23: checkValue returns for a value equal to the lower or the upper limit
\* and raises DPTXlatorValueError for the value one beyond either limit.
C23_CheckValueIsExactAtTheLimits ==
    \A i \in XCallsOf("checkValue") :
        /\ xLog[i].arg[1] \in {X_limits[1], X_limits[2]} => xLog[i].exc = "none"
        /\ xLog[i].arg[1] \in {X_limits[1] - 1, X_limits[2] + 1}
               => xLog[i].exc = "DPTXlatorValueError"

\* The upper limit was accepted and the value after it rejected.
C23_Witness ==
    /\ Len(xLog) = 2
    /\ xLog[1].op = "checkValue" /\ xLog[1].arg = <<X_limits[2]>>
    /\ xLog[1].exc = "none"
    /\ xLog[2].op = "checkValue" /\ xLog[2].arg = <<X_limits[2] + 1>>
    /\ xLog[2].exc = "DPTXlatorValueError"

\* C24: the Boolean translator's typeSize is 0; data 0 is the value 0 and data
\* 1 the value 1, both ways; dataToFrame returns one byte, equal to the data,
\* and nothing after it.
C24_BooleanIsASmallFormat ==
    /\ \A i \in XCallsOf("typeSize") : xLog[i].ret = <<0>>
    /\ \A i \in XCallsOf("dataToValue") : xLog[i].ret = xLog[i].arg
    /\ \A i \in XCallsOf("valueToData") :
           xLog[i].exc = "none" => xLog[i].ret = xLog[i].arg
    /\ \A i \in XCallsOf("dataToFrame") :
           /\ Len(xLog[i].ret) = 1
           /\ xLog[i].ret[1] = xLog[i].arg[1]
           /\ xLog[i].ret[1] < 64

\* The data 1 was put into a frame, and typeSize read.
C24_Witness ==
    /\ Len(xLog) = 2
    /\ xLog[1].op = "dataToFrame" /\ xLog[1].arg = <<1>> /\ xLog[1].ret = <<1>>
    /\ xLog[2].op = "typeSize" /\ xLog[2].ret = <<0>>

\* C25: no call on a translator changes the DPT it is bound to: after every
\* call it is bound to the DPT it was bound to before the call.  Does not hold:
\* an assignment to the dpt attribute binds the translator to another DPT.
C25_TranslatorIsReadOnly ==
    \A i \in DOMAIN xLog :
        xLog[i].dpt = (IF i = 1 THEN "DPT_Generic" ELSE xLog[i - 1].dpt)

\* C26: a translator created for "1.xxx" is bound to DPT_Generic; the
\* assignment dpt = "1.001" binds it to DPT_Switch, and a read of dpt that
\* follows returns DPT_Switch.
C26_DptAssignmentRebinds ==
    /\ xLog = <<>> => xDpt = "DPT_Generic"
    /\ (xLog # <<>> /\ xLog[1].op = "getDpt") => xLog[1].got = "DPT_Generic"
    /\ \A i \in XCallsOf("setDpt") :
           xLog[i].id = "1.001" =>
               /\ xLog[i].dpt = "DPT_Switch"
               /\ (i + 1 \in DOMAIN xLog /\ xLog[i + 1].op = "getDpt")
                      => xLog[i + 1].got = "DPT_Switch"

\* "1.001" was assigned to dpt, and dpt read: DPT_Switch.
C26_Witness ==
    /\ Len(xLog) = 2
    /\ xLog[1].op = "setDpt" /\ xLog[1].id = "1.001"
    /\ xLog[2].op = "getDpt" /\ xLog[2].got = "DPT_Switch"
    /\ xDpt = "DPT_Switch"

\* Flags() was called and the call after it was made on the Flags it returned.
FlMadeThenAsked(i, op) ==
    /\ i + 1 \in DOMAIN flLog
    /\ flLog[i].op = "new" /\ flLog[i].exc = "none"
    /\ flLog[i + 1].op = op
CRWTUIS == <<"C", "R", "W", "T", "U", "I", "S">>
HasForeignLetter(string) == \E i \in DOMAIN string : string[i] \notin Letters(CRWTUIS)
HasLetterTwice(string) == \E i, j \in DOMAIN string : i # j /\ string[i] = string[j]
OutOfOrder(string) ==
    \E i, j \in DOMAIN string, k, l \in DOMAIN CRWTUIS :
        i < j /\ string[i] = CRWTUIS[k] /\ string[j] = CRWTUIS[l] /\ k > l

\* C27: Flags(s) raises FlagsValueError and returns no object when s has a
\* letter outside C R W T U I S, has a letter twice, or has its letters out of
\* the order CRWTUIS; Flags("CRWTUIS") returns an object.
C27_FlagsRejectsMalformedStrings ==
    \A i \in DOMAIN flLog : flLog[i].op = "new" =>
        /\ (HasForeignLetter(flLog[i].arg) \/ HasLetterTwice(flLog[i].arg)
                \/ OutOfOrder(flLog[i].arg))
               => /\ flLog[i].exc = "FlagsValueError"
                  /\ flLog[i].made = <<>>
                  /\ i = 1 => flObj = <<>> \/ Len(flLog) > 1
        /\ flLog[i].arg = CRWTUIS
               => flLog[i].exc = "none" /\ flLog[i].made # <<>>

\* Flags("CWUT") was rejected, and no Flags exists.
C27_Witness ==
    /\ Len(flLog) = 1
    /\ flLog[1].op = "new" /\ flLog[1].arg = <<"C", "W", "U", "T">>
    /\ flLog[1].exc = "FlagsValueError"
    /\ flObj = <<>>

\* C28: for a string s that Flags accepts, str(Flags(s)) is s, Flags(s).raw is
\* s, repr(Flags(s)) is <Flags('s')>, and the letters of s are in the order
\* CRWTUIS.
C28_FlagsRoundTrip ==
    \A i \in DOMAIN flLog :
        /\ (flLog[i].op = "new" /\ flLog[i].exc = "none") => ~OutOfOrder(flLog[i].arg)
        /\ FlMadeThenAsked(i, "str") => flLog[i + 1].ret = flLog[i].arg
        /\ FlMadeThenAsked(i, "raw") => flLog[i + 1].ret = flLog[i].arg
        /\ FlMadeThenAsked(i, "repr")
               => flLog[i + 1].ret = <<"<Flags('">> \o flLog[i].arg \o <<"')>">>

\* str(Flags("CRWTUIS")) was taken: "CRWTUIS".
C28_Witness ==
    /\ FlMadeThenAsked(1, "str")
    /\ flLog[1].arg = CRWTUIS
    /\ flLog[2].ret = CRWTUIS

\* C29: flags(query) returns true exactly when every letter of query is set
\* in flags, in whatever order the query lists them; for a query with a letter
\* outside the alphabet it returns false, and raises nothing.
C29_FlagsSupersetQuery ==
    \A i \in DOMAIN flLog : FlMadeThenAsked(i, "call") =>
        /\ flLog[i + 1].exc = "none"
        /\ flLog[i + 1].truth = (Letters(flLog[i + 1].arg) \subseteq Letters(flLog[i].arg))
        /\ HasForeignLetter(flLog[i + 1].arg) => ~flLog[i + 1].truth

\* Flags("CRWTUIS") was asked for "CRTWIUS": true.
C29_Witness ==
    /\ FlMadeThenAsked(1, "call")
    /\ flLog[1].arg = CRWTUIS
    /\ flLog[2].arg = <<"C", "R", "T", "W", "I", "U", "S">>
    /\ flLog[2].truth

\* Limits that are an ordered domain or an enumeration: a tuple or a list,
\* and if it is a pair of numbers, the first is not above the second.
FormsDomain(limits) ==
    /\ limits.type \in {"tuple", "list"}
    /\ (limits.elems = "numbers" /\ Len(limits.items) = 2)
           => limits.items[1] <= limits.items[2]

\* C30: DPT() raises DPTValueError and makes no object when its limits are
\* not an ordered domain or an enumeration, and makes the DPT otherwise.  Does
\* not hold: a pair whose lower limit is above its upper limit is accepted.
C30_DptValidatesItsLimits ==
    dptLast.op = "new" =>
        IF FormsDomain(dptLast.limits)
        THEN dptLast.exc = "none" /\ dptLast.made # <<>>
        ELSE dptLast.exc = "DPTValueError" /\ dptLast.made = <<>>

\* C31: a DPT stays as it was made: an assignment to id, desc, limits or unit
\* raises and changes nothing, and a read returns the id, the description and
\* the unit given to DPT() and, as a tuple, the items the limits had then,
\* whatever the caller has done to its list since.
C31_DptIsImmutable ==
    dptLast.made # <<>> =>
        /\ dpts[Len(dpts)] = dptLast.made[1]
        /\ dptLast.op = "assign" => dptLast.exc = "AttributeError"
        /\ dptLast.op = "read" =>
               /\ dptLast.ret.id = dptLast.given.id
               /\ dptLast.ret.desc = dptLast.given.desc
               /\ dptLast.ret.unit = dptLast.given.unit
               /\ dptLast.ret.limits.type = "tuple"
               /\ dptLast.ret.limits.items = dptLast.given.limits.items

\* The limits of a DPT were read after the caller had changed the list it gave.
C31_Witness ==
    /\ dptLast.op = "read"
    /\ dptLast.made # <<>>
    /\ dptLast.given.limits.type = "list"
    /\ dptLast.limits.items # dptLast.given.limits.items
    /\ dptLast.ret.limits.items = dptLast.given.limits.items

\* The last entry before place i that sets the listener of a layer; 0 if none.
LastSet(layer, i) ==
    LET sets == {j \in 1..(i - 1) : wireLog[j].ev = "set" /\ wireLog[j].layer = layer}
    IN  IF sets = {} THEN 0 ELSE CHOOSE j \in sets : \A k \in sets : k <= j

\* C32: Stack() leaves layer 2 with the layer-3 service as its listener, layer
\* 3 with the layer-4 service and layer 4 with the layer-7 service; each
\* layer has the one listener set last, and an indication goes to that one.
C32_StackIsWiredUpward ==
    /\ last.op = "Stack_init" =>
           /\ ldsListener = NGDS
           /\ ngds = [_ngdl |-> TGDS, _hopCount |-> DEFAULT_HOP_COUNT]
           /\ tgds = [_tgdl |-> AGDS]
    /\ \A i \in DOMAIN wireLog : wireLog[i].ev = "got" =>
           /\ LastSet(wireLog[i].layer, i) > 0
           /\ wireLog[i].who = wireLog[LastSet(wireLog[i].layer, i)].who
           /\ wireLog[i].who # None

\* Layer 4 was given another listener after Stack(), and that one got the
\* indication that followed.
C32_Witness ==
    /\ Len(wireLog) >= 7
    /\ wireLog[3] = WireSet(4, AGDS)
    /\ wireLog[4] = WireSet(4, "listener")
    /\ wireLog[7].ev = "got" /\ wireLog[7].layer = 4 /\ wireLog[7].who = "listener"

\* C33: every tPDU that T_GroupDataService.groupDataReq gives to layer 3 has
\* the packet type unnumbered data: its two top bits are 0.  Does not hold: a
\* buffer whose byte 0 has one of them set is passed on as it is.
C33_SentPacketsAreUnnumberedData ==
    last.op = "T_groupDataReq" =>
        \A i \in DOMAIN last.out.down :
            PacketTypeOf(last.out.down[i].data[1]) = UNNUMBERED_DATA

\* C34: the data a Datapoint has cached is None or data that checkData lets
\* through; an assignment to frame in which frameToData or checkData raises
\* leaves the cached data as it was and makes no call of the owner's notify.
C34_CachedDataIsCheckedData ==
    /\ dpData = <<>> \/ dpData[1] \in {0, 1}
    /\ (dpLast.op = "frame" /\ dpLast.out.exc # "none") =>
           /\ dpData = dpLast.before
           /\ CallsOn(dpLast.out.events, "owner", "notify") = <<>>
           /\ CallsOn(dpLast.out.events, "self", "cache") = <<>>

\* A frame whose data checkData refuses was assigned while data was cached.
C34_Witness ==
    /\ dpLast.op = "frame"
    /\ dpLast.arg = <<2>>
    /\ dpLast.out.exc = "DPTXlatorValueError"
    /\ dpLast.before # <<>>
    /\ dpData = dpLast.before

\* C35: Datapoint() with a default inside the limits caches the data of the
\* default, so that value reads back as the default, and calls neither the
\* change signal nor the owner; with a default outside the limits, an access
\* that is not input, output or param, or an id no translator is found for,
\* it raises and there is no new Datapoint.
C35_DefaultIsCachedQuietly ==
    dpLast.op = "new" =>
        /\ CallsOn(dpLast.out.events, "signalChanged", "emit") = <<>>
        /\ CallsOn(dpLast.out.events, "owner", "notify") = <<>>
        /\ IF \/ dpLast.ctor[1] \notin {"input", "output", "param"}
              \/ dpLast.ctor[2] # "1.xxx"
              \/ dpLast.arg # <<>> /\ dpLast.arg[1] \notin {0, 1}
           THEN /\ dpLast.out.exc # "none"
                /\ dpLast.out.data = <<>>
                /\ dpData = dpLast.before
           ELSE /\ dpLast.out.exc = "none"
                /\ dpData = dpLast.out.data
                /\ dpLast.arg = <<>> => dpData = <<>>
                /\ dpLast.arg # <<>> =>
                       /\ dpData # <<>>
                       /\ DP_value(dpData).value = dpLast.arg

\* A Datapoint was made with the default 1 while nothing had been signalled
\* or notified.
C35_Witness ==
    /\ dpLast.op = "new"
    /\ dpLast.arg = <<1>>
    /\ dpLast.out.exc = "none"
    /\ dpData # <<>>
    /\ signalled = <<>>
    /\ notified = <<>>

\* C36: an indication that runs while another thread calls setListener on
\* its layer raises nothing: it ends with the frame given to a listener that
\* was set at some time during the call, or logged and dropped.  Does not
\* hold: setListener(None) between the test of the listener and the call on
\* it makes the call one on None.
C36_IndicationNeverRaises ==
    rxInd.pc = "done" =>
        /\ rxInd.exc = "none"
        /\ \/ rxInd.to # None /\ rxInd.to \in rxInd.during
           \/ rxInd.to = None /\ rxInd.log = "not listener defined"

\* The listeners of a Group that Stack.start() looks at: those up to the
\* first one whose flags have init set, or all if there is none.
Examined(listeners) ==
    LET inits == {i \in DOMAIN listeners : listeners[i] = "init"}
    IN  IF inits = {} THEN DOMAIN listeners
        ELSE 1..(CHOOSE i \in inits : \A j \in inits : i <= j)

\* C38: Stack.start() logs and passes over a listener without flags or with
\* flags None and goes on: it returns, with one log record for each such
\* listener it looked at, and with the read request of every Group that has
\* an init listener, also when that listener comes after one without flags.
C38_ListenerWithoutFlagsIsSkipped ==
    (main.call = "none" /\ main.returns # <<>>
        /\ main.returns[Len(main.returns)] \in {"start", "start raised"}) =>
        /\ main.returns[Len(main.returns)] = "start"
        /\ \A g \in GroupIds :
               /\ Cardinality({i \in DOMAIN main.trace :
                                   main.trace[i] = Step("log.exception", g)})
                      = Cardinality({i \in Examined(groups[g]) :
                                         groups[g][i] \in {"flagsNone", "noFlags"}})
               /\ (\E i \in DOMAIN groups[g] : groups[g][i] = "init")
                      => ReadsOf(main.trace, g) = 1

\* Stack.start() has returned; the first Group's init listener came after a
\* listener without flags, the second Group's after one with flags None.
C38_Witness ==
    /\ StartReturned
    /\ groups["g1"] = <<"noFlags", "init">>
    /\ groups["g2"] = <<"flagsNone", "init">>
    /\ ReadsOf(main.trace, "g1") = 1
    /\ ReadsOf(main.trace, "g2") = 1
    /\ Cardinality({i \in DOMAIN main.trace : main.trace[i].op = "log.exception"}) = 2

\* C37: when Stack.mainLoop() is over, by return or by exception, no pump is
\* running: an interrupt after the pumps were started brings a call of
\* stop().  Does not hold: start() is called before the try, so an interrupt
\* during start() leaves mainLoop without stop().
C37_InterruptStopsThePumps ==
    (/\ main.call = "none" /\ main.returns # <<>>
     /\ main.returns[Len(main.returns)] \in {"mainLoop", "mainLoop raised"}
     /\ PlacesOf(main.trace, "tc.start") # {}) =>
        /\ ~Alive(ldsThread)
        /\ ~Alive(tcThread)
        /\ Cardinality(PlacesOf(main.trace, "tc.stop")) = 1

====
